---- MODULE Spec2Model ----
(***************************************************************************)
(* Tickets+ : the tenant store (database/layer.py, database/models.py),    *)
(* the event handlers (cogs/events.py), the administrative commands        *)
(* (cogs/settings.py, cogs/main_utils.py, cogs/staff.py), the HTTP ticket  *)
(* handler (api/handlers.py) and the background sweeps (cogs/routines.py). *)
(*                                                                         *)
(* One action is one unit of work: a handler body run inside               *)
(* "async with get_connection()".  A handler reads the committed store,    *)
(* stages its mutations and either reaches commit() (the staged store      *)
(* becomes the committed one) or leaves without it (the committed store    *)
(* stays as it was).  The platform (Discord) is an opaque sink: every      *)
(* outbound call of a handler is recorded, in call order, in last.fx.      *)
(***************************************************************************)
EXTENDS Integers, Sequences, FiniteSets, TLC

(***************************************************************************)
(* Identifiers.  IDs are platform snowflakes; a role and a channel belong  *)
(* to exactly one guild.                                                   *)
(***************************************************************************)
None == 0

Guilds == {1, 2}
Roles == {11, 12, 21}
Channels == {101, 102, 201}
Users == {1, 2, 3}

RoleGuild(r) == r \div 10
ChanGuild(c) == c \div 100

\* Bounds of the model (not program constants).
MaxToggleCount == 4
MaxPosts == 3
MaxThreads == 2
MaxCalls == 2
MaxTime == 6

(***************************************************************************)
(* State.                                                                  *)
(*   db     the committed store, one field per table:                      *)
(*            guilds           guild_id -> Guild row (exists = row present)*)
(*            staff_roles      role_id -> guild_id of the row, None = none *)
(*            observers_roles, community_roles, community_pings  likewise  *)
(*            ticket_bots      set of <<user_id, guild_id>>                *)
(*            ticket_types     guild_id -> set of TicketType rows          *)
(*            tickets          channel_id -> Ticket row                    *)
(*   plat   the platform as the handlers see it: the channels that exist,  *)
(*          their creation times and topics, and the threads created       *)
(*   now    the clock (datetime.utcnow / the database's UTC time), minutes *)
(*   last   the last unit of work: operation, inputs, result, and the      *)
(*          calls it made, in call order (fx)                              *)
(*   toggled  history: the run of toggles of one key since a snapshot      *)
(*   calls    history: per channel, how many get_ticket calls were made    *)
(*            and the arguments of the first of them                       *)
(***************************************************************************)
VARIABLES db, plat, now, last, toggled, calls, heard, units

vars == <<db, plat, now, last, toggled, calls, heard, units>>

(***************************************************************************)
(* models.Guild: column defaults (models.py 126-188).                      *)
(* legacy_threads is read by StaffCmmd.register (staff.py 196); models.py   *)
(* declares no such column, so reading it raises AttributeError.           *)
(***************************************************************************)
NoGuildRow ==
    [exists |-> FALSE,
     open_message |-> <<"Staff notes for Ticket ", "$channel", ".">>,
     staff_team_name |-> "Staff Team",
     first_autoclose |-> None, any_autoclose |-> None, warn_autoclose |-> None,
     support_block |-> None, helping_block |-> None,
     msg_discovery |-> TRUE, strip_buttons |-> FALSE, strip_roles |-> FALSE,
     integrated |-> FALSE]

NewGuildRow == [NoGuildRow EXCEPT !.exists = TRUE]

\* OnlineConfig.get_guild: the row, staged with its defaults when absent.
get_guild(gs, guild_id) ==
    IF gs[guild_id].exists THEN gs ELSE [gs EXCEPT ![guild_id] = NewGuildRow]

(***************************************************************************)
(* Get-or-create of a role row.  The four role tables have role_id as      *)
(* their whole primary key and are looked up with session.get(role_id).    *)
(***************************************************************************)
get_role_row(tbl, role_id, guild_id) ==
    IF tbl[role_id] = None
    THEN [new |-> TRUE, tbl |-> [tbl EXCEPT ![role_id] = guild_id]]
    ELSE [new |-> FALSE, tbl |-> tbl]

get_staff_role(tbl, role_id, guild_id) == get_role_row(tbl, role_id, guild_id)
get_observers_role(tbl, role_id, guild_id) == get_role_row(tbl, role_id, guild_id)
get_community_role(tbl, role_id, guild_id) == get_role_row(tbl, role_id, guild_id)
get_community_ping(tbl, role_id, guild_id) == get_role_row(tbl, role_id, guild_id)

\* Faulty variant of delete_role_row: the row is not deleted.
delete_role_row_kept(tbl, role_id) == tbl

\* OnlineConfig.delete of a role row, effective at the commit that follows.
delete_role_row(tbl, role_id) == [tbl EXCEPT ![role_id] = None]

\* OnlineConfig.get_ticket_bot: looked up by (user_id, guild).
get_ticket_bot(tbl, user_id, guild_id) ==
    IF <<user_id, guild_id>> \in tbl
    THEN [new |-> FALSE, tbl |-> tbl]
    ELSE [new |-> TRUE, tbl |-> tbl \cup {<<user_id, guild_id>>}]

\* The rows of one tenant in a role table (get_all_staff_roles and its siblings).
RolesOf(tbl, guild_id) == {r \in Roles : tbl[r] = guild_id}
BotsOf(tbl, guild_id) == {u \in Users : <<u, guild_id>> \in tbl}

(***************************************************************************)
(* The record of a unit of work.                                           *)
(***************************************************************************)
\*   op, g, ch, key   the handler and its inputs (guild, channel, role/user/thread)
\*   new, got         the result of its get-or-create call
\*   pre              the Ticket row of ch before the handler ran
\*   ran, ticket_type, ttypes   whether ticket_creation was entered, the
\*                    TicketType it selected and the rows it selected from
\*   reply            the answer given to the caller
\*   committed        whether commit() was reached
\*   fx               the calls made, in call order
\* Faulty variant of aexit: the session is closed without rollback.
aexit_without_rollback(exc) == <<"close">>

\* OnlineConfig.__aexit__ (layer.py 77-93): the session calls made when a unit
\* of work leaves "async with", exc telling whether an exception left it.
aexit(exc) == (IF exc THEN <<"rollback">> ELSE <<>>) \o <<"close">>

\* The session calls of one unit of work, in call order: commit() when the
\* body reached it (commit is the last session call of every body that
\* commits), then __aexit__.
unit_calls(committed, exc) ==
    (IF committed THEN <<"commit">> ELSE <<>>) \o aexit(exc)

\* Faulty variant of persisted: closing the session writes what was staged.
persisted_on_close(committed, staged, stored) == staged

\* Faulty variant of rollback: what the session staged is written.
rollback_kept(staged, stored) == staged

\* OnlineConfig.rollback (layer.py 116-122): what was staged since the last
\* commit is dropped.
rollback(staged, stored) == stored

\* OnlineConfig.close without commit discards what the session staged
\* (layer.py 95-100, 109-114): the store a unit of work leaves behind.
persisted(committed, staged, stored) == IF committed THEN staged ELSE stored

\* The store a run r of the creation workflow leaves behind: r.db is what its
\* session holds, r.saved what its last commit wrote, stored what was there
\* before.  An exception ends in __aexit__ with rollback.
unit_store(r, stored) ==
    IF r.raised THEN rollback(r.db, IF r.committed THEN r.saved ELSE stored)
    ELSE persisted(r.committed, r.db, stored)

NoMessage ==
    [author |-> None, bot |-> FALSE, roles |-> {}, content |-> <<>>,
     created_at |-> None]

Idle ==
    [op |-> "init", g |-> None, ch |-> None, key |-> None, new |-> FALSE,
     got |-> [exists |-> FALSE], pre |-> [exists |-> FALSE], ran |-> FALSE,
     ticket_type |-> [prefix |-> <<>>, ignore |-> FALSE], ttypes |-> <<>>,
     reply |-> "", committed |-> FALSE, fx |-> <<>>, msg |-> NoMessage,
     exc |-> FALSE, sess |-> <<>>, entries |-> <<>>, gone |-> {}, arg |-> None]

NoToggles ==
    [kind |-> "", key |-> None, g |-> None, n |-> 0, orig |-> {}, before |-> {},
     reply |-> ""]

\* The membership set a toggle command edits: the keys of one tenant in one table.
Membership(d, kind, g) ==
    CASE kind = "staff" -> RolesOf(d.staff_roles, g)
      [] kind = "observers" -> RolesOf(d.observers_roles, g)
      [] kind = "communitysupport" -> RolesOf(d.community_roles, g)
      [] kind = "communityping" -> RolesOf(d.community_pings, g)
      [] kind = "ticketbot" -> BotsOf(d.ticket_bots, g)
      [] OTHER -> {}

\* History of C2: how many times in a row the same (command, key, tenant) was
\* invoked, and the membership when that run began.
CountToggle(kind, key, g, reply) ==
    IF toggled.kind = kind /\ toggled.key = key /\ toggled.g = g
       /\ toggled.n < MaxToggleCount
    THEN [toggled EXCEPT !.n = @ + 1, !.before = Membership(db, kind, g),
                         !.reply = reply]
    ELSE [kind |-> kind, key |-> key, g |-> g, n |-> 1,
          orig |-> Membership(db, kind, g), before |-> Membership(db, kind, g),
          reply |-> reply]

(***************************************************************************)
(* Toggle commands (cogs/settings.py).  Each one: get-or-create the row;   *)
(* a row that was already there is deleted; commit; answer.                *)
(***************************************************************************)
ToggleReply(new) == IF new THEN "Added" ELSE "Removed"

\* Settings.change_staff
change_staff(role, guild_id) ==
    LET gs == get_guild(db.guilds, guild_id)
        got == get_staff_role(db.staff_roles, role, guild_id)
        tbl == IF ~got.new THEN delete_role_row(got.tbl, role) ELSE got.tbl
    IN /\ db' = [db EXCEPT !.guilds = gs, !.staff_roles = tbl]
       /\ last' = [Idle EXCEPT !.op = "change_staff", !.exc = FALSE,
            !.sess = unit_calls(TRUE, FALSE), !.g = guild_id, !.key = role,
                                !.new = got.new, !.reply = ToggleReply(got.new),
                                !.committed = TRUE]
       /\ toggled' = CountToggle("staff", role, guild_id, ToggleReply(got.new))
       /\ UNCHANGED <<plat, now, calls, heard, units>>

\* Settings.change_observers
change_observers(role, guild_id) ==
    LET gs == get_guild(db.guilds, guild_id)
        got == get_observers_role(db.observers_roles, role, guild_id)
        tbl == IF ~got.new THEN delete_role_row(got.tbl, role) ELSE got.tbl
    IN /\ db' = [db EXCEPT !.guilds = gs, !.observers_roles = tbl]
       /\ last' = [Idle EXCEPT !.op = "change_observers", !.exc = FALSE,
            !.sess = unit_calls(TRUE, FALSE), !.g = guild_id,
                                !.key = role, !.new = got.new,
                                !.reply = ToggleReply(got.new), !.committed = TRUE]
       /\ toggled' = CountToggle("observers", role, guild_id, ToggleReply(got.new))
       /\ UNCHANGED <<plat, now, calls, heard, units>>

\* Settings.change_community_roles
change_community_roles(role, guild_id) ==
    LET gs == get_guild(db.guilds, guild_id)
        got == get_community_role(db.community_roles, role, guild_id)
        tbl == IF ~got.new THEN delete_role_row(got.tbl, role) ELSE got.tbl
    IN /\ db' = [db EXCEPT !.guilds = gs, !.community_roles = tbl]
       /\ last' = [Idle EXCEPT !.op = "change_community_roles", !.exc = FALSE,
            !.sess = unit_calls(TRUE, FALSE), !.g = guild_id,
                                !.key = role, !.new = got.new,
                                !.reply = ToggleReply(got.new), !.committed = TRUE]
       /\ toggled' = CountToggle("communitysupport", role, guild_id,
                                 ToggleReply(got.new))
       /\ UNCHANGED <<plat, now, calls, heard, units>>

\* Settings.change_community_ping_roles
change_community_ping_roles(role, guild_id) ==
    LET gs == get_guild(db.guilds, guild_id)
        got == get_community_ping(db.community_pings, role, guild_id)
        tbl == IF ~got.new THEN delete_role_row(got.tbl, role) ELSE got.tbl
    IN /\ db' = [db EXCEPT !.guilds = gs, !.community_pings = tbl]
       /\ last' = [Idle EXCEPT !.op = "change_community_ping_roles", !.exc = FALSE,
            !.sess = unit_calls(TRUE, FALSE), !.g = guild_id,
                                !.key = role, !.new = got.new,
                                !.reply = ToggleReply(got.new), !.committed = TRUE]
       /\ toggled' = CountToggle("communityping", role, guild_id,
                                 ToggleReply(got.new))
       /\ UNCHANGED <<plat, now, calls, heard, units>>

\* Settings.change_tracked
change_tracked(user, guild_id) ==
    LET gs == get_guild(db.guilds, guild_id)
        got == get_ticket_bot(db.ticket_bots, user, guild_id)
        tbl == IF ~got.new THEN got.tbl \ {<<user, guild_id>>} ELSE got.tbl
    IN /\ db' = [db EXCEPT !.guilds = gs, !.ticket_bots = tbl]
       /\ last' = [Idle EXCEPT !.op = "change_tracked", !.exc = FALSE,
            !.sess = unit_calls(TRUE, FALSE), !.g = guild_id, !.key = user,
                                !.new = got.new, !.reply = ToggleReply(got.new),
                                !.committed = TRUE]
       /\ toggled' = CountToggle("ticketbot", user, guild_id, ToggleReply(got.new))
       /\ UNCHANGED <<plat, now, calls, heard, units>>

(***************************************************************************)
(* Text.  A string is a sequence of characters or of larger tokens;        *)
(* channel names are character sequences, since str.startswith compares    *)
(* characters.                                                             *)
(***************************************************************************)
ChanName(c) ==
    CASE c = 101 -> <<"b", "u", "g", "-", "u", "r", "g", "e", "n", "t", "-", "4", "2">>
      [] c = 102 -> <<"t", "i", "c", "k", "e", "t", "-", "7">>
      [] OTHER -> <<"a", "r", "c", "h", "i", "v", "e", "-", "1">>

PrefixBug == <<"b", "u", "g">>
PrefixBugUrgent == <<"b", "u", "g", "-", "u", "r", "g", "e", "n", "t">>
PrefixArchive == <<"a", "r", "c", "h", "i", "v", "e">>

\* str.startswith
startswith(name, prefix) ==
    /\ Len(prefix) <= Len(name)
    /\ SubSeq(name, 1, Len(prefix)) = prefix

\* channel.topic is None
NoTopic == [text |-> "none", closes |-> None]

\* channel.mention
Mention(c) == "<#" \o ToString(c) \o ">"
\* f"<@&{role.role_id}>"
RoleMention(r) == "<@&" \o ToString(r) \o ">"

\* Faulty variant of safe_substitute: the template is sent as it is.
safe_substitute_skipped(template, channel) == template

\* string.Template(open_message).safe_substitute(channel=...): the placeholder
\* is replaced wherever it stands, every other token is kept.
safe_substitute(template, channel) ==
    [i \in 1..Len(template) |->
        IF template[i] \in {"$channel", "${channel}"} THEN channel ELSE template[i]]

\* A set of ids as the sequence of its elements, ascending.
RECURSIVE Ascending(_)
Ascending(S) ==
    IF S = {} THEN <<>>
    ELSE LET m == CHOOSE x \in S : \A y \in S : x <= y
         IN <<m>> \o Ascending(S \ {m})

\* " ".join([f"<@&{role.role_id}>" for role in roles])
RECURSIVE JoinMentions(_)
JoinMentions(rs) ==
    IF rs = <<>> THEN <<>>
    ELSE IF Len(rs) = 1 THEN <<RoleMention(rs[1])>>
    ELSE <<RoleMention(rs[1]), " ">> \o JoinMentions(Tail(rs))

\* All the orders in which a query without ORDER BY may return a set of rows.
RECURSIVE Orders(_)
Orders(S) ==
    IF S = {} THEN {<<>>}
    ELSE UNION {{<<x>> \o t : t \in Orders(S \ {x})} : x \in S}

(***************************************************************************)
(* models.TicketType and models.Ticket.                                    *)
(***************************************************************************)
\* TicketType.default()
DefaultTicketType ==
    [prefix |-> <<>>, comping |-> TRUE, comaccs |-> TRUE, strpbuttns |-> TRUE,
     ignore |-> FALSE]

NoTicket ==
    [exists |-> FALSE, guild_id |-> None, user_id |-> None,
     staff_note_thread |-> None, date_created |-> None, last_response |-> None,
     anonymous |-> FALSE, notified |-> FALSE]

\* Faulty variant of fetch_ticket: no row is ever found.
fetch_ticket_absent(tickets, channel_id) == NoTicket

\* OnlineConfig.fetch_ticket
fetch_ticket(tickets, channel_id) == tickets[channel_id]

\* Faulty variant of get_ticket: an existing row is overwritten from the
\* arguments.
get_ticket_overwriting(tickets, channel_id, guild_id, user_id, staff_note) ==
    LET row == [exists |-> TRUE, guild_id |-> guild_id, user_id |-> user_id,
                staff_note_thread |-> staff_note, date_created |-> now,
                last_response |-> now, anonymous |-> FALSE, notified |-> FALSE]
    IN [new |-> ~tickets[channel_id].exists, ticket |-> row,
        tickets |-> [tickets EXCEPT ![channel_id] = row]]

\* OnlineConfig.get_ticket: the row of the channel, inserted from the arguments
\* when there is none (date_created and last_response by server default).
get_ticket(tickets, channel_id, guild_id, user_id, staff_note) ==
    IF tickets[channel_id].exists
    THEN [new |-> FALSE, ticket |-> tickets[channel_id], tickets |-> tickets]
    ELSE LET row == [exists |-> TRUE, guild_id |-> guild_id, user_id |-> user_id,
                     staff_note_thread |-> staff_note, date_created |-> now,
                     last_response |-> now, anonymous |-> FALSE, notified |-> FALSE]
         IN [new |-> TRUE, ticket |-> row,
             tickets |-> [tickets EXCEPT ![channel_id] = row]]

\* Faulty variant of check_ticket_bot: every account passes.
check_ticket_bot_any(tbl, user_id, guild_id) == TRUE

\* OnlineConfig.check_ticket_bot
check_ticket_bot(tbl, user_id, guild_id) == <<user_id, guild_id>> \in tbl

(***************************************************************************)
(* Calls made by a handler, in call order.                                 *)
(***************************************************************************)
Fx(k, ch, arg, txt) == [k |-> k, ch |-> ch, arg |-> arg, txt |-> txt]

ThreadBase == 900
ThreadId(n) == ThreadBase + n

\* The deny overwrite of the helping-block role and the allow overwrite of a
\* community role (events.py 93-98, 110-118).
DenyOverwrite == <<"view_channel=F", "add_reactions=F", "send_messages=F",
                   "read_messages=F", "read_message_history=F">>
AllowOverwrite == <<"view_channel=T", "add_reactions=T", "send_messages=T",
                    "read_messages=T", "read_message_history=T", "attach_files=T",
                    "embed_links=T", "use_application_commands=T">>

(***************************************************************************)
(* Events.ticket_creation (events.py 57-152).                              *)
(*   d, p     the session's view of the store and the platform             *)
(*   inp      what the platform returns during the run:                    *)
(*              ttypes   the rows of get_ticket_types, in returned order   *)
(*              gone     the role ids that no longer resolve (get_role)    *)
(*              history  the authors of the first two channel messages     *)
(* The result holds the staged store, whether commit() was reached (then   *)
(* the staged store is the committed one), the platform and the calls.     *)
(***************************************************************************)
\* events.py 70-73: every row whose prefix the name starts with replaces the
\* choice made so far.
RECURSIVE match_ticket_type(_, _, _)
match_ticket_type(ttypes, name, chosen) ==
    IF ttypes = <<>> THEN chosen
    ELSE match_ticket_type(Tail(ttypes), name,
                           IF startswith(name, Head(ttypes).prefix)
                           THEN Head(ttypes) ELSE chosen)

select_ticket_type(ttypes, name) == match_ticket_type(ttypes, name, DefaultTicketType)

\* Faulty variant of resolves: a deleted role is still found.
resolves_always(role_id, gone) == TRUE

\* gld.get_role(role_id) is not None (events.py 99-100, 120-122)
resolves(role_id, gone) == role_id \notin gone

\* Faulty variant of gated: the flag of the ticket type is not looked at.
gated_by_config(configured, allowed) == configured

\* if guild.<setting> and ticket_type.<flag> (events.py 108, 128, 134)
gated(configured, allowed) == configured /\ allowed

\* events.py 119-127
RECURSIVE community_overwrites(_, _, _)
community_overwrites(rs, gone, c) ==
    IF rs = <<>> THEN <<>>
    ELSE (IF ~resolves(Head(rs), gone) THEN <<>>
          ELSE <<Fx("set_permissions", c, Head(rs), AllowOverwrite)>>)
         \o community_overwrites(Tail(rs), gone, c)

\* events.py 136-139
RECURSIVE strip_buttons(_, _, _, _)
strip_buttons(authors, bots, gld, c) ==
    IF authors = <<>> THEN <<>>
    ELSE (IF check_ticket_bot(bots, Head(authors), gld)
          THEN <<Fx("send", c, Head(authors), <<"embeds">>),
                 Fx("delete_message", c, Head(authors), <<>>)>>
          ELSE <<>>)
         \o strip_buttons(Tail(authors), bots, gld, c)

\* Faulty variant of is_ignored: the ignore flag is not looked at.
is_ignored_never(ticket_type) == FALSE

\* events.py 74-75: the selected type asks to leave the channel alone
is_ignored(ticket_type) == ticket_type.ignore

ticket_creation(d, p, gld, c, user, inp) ==
    LET guild == d.guilds[gld]
        ticket_type == select_ticket_type(inp.ttypes, ChanName(c))
        nts_thrd == ThreadId(p.threads + 1)
        got == get_ticket(d.tickets, c, gld, user, nts_thrd)
        observers == RolesOf(d.observers_roles, gld)
        comm_roles == RolesOf(d.community_roles, gld)
        comm_pings == RolesOf(d.community_pings, gld)
        stale_block == /\ guild.helping_block # None
                       /\ ~resolves(guild.helping_block, inp.gone)
        closes == IF guild.first_autoclose # None
                  THEN p.created_at[c] + guild.first_autoclose ELSE None
        staged == [d EXCEPT !.tickets = got.tickets,
                            !.guilds[gld].helping_block =
                                IF stale_block THEN None ELSE @]
        fx == <<Fx("create_thread", c, nts_thrd, <<>>),
                Fx("send", nts_thrd, None,
                   safe_substitute(guild.open_message, Mention(c))),
                Fx("get_ticket", c, nts_thrd, <<>>)>>
              \o (IF observers # {}
                  THEN <<Fx("send", nts_thrd, None, JoinMentions(Ascending(observers))),
                         Fx("delete_message", nts_thrd, None,
                            JoinMentions(Ascending(observers)))>>
                  ELSE <<>>)
              \o (IF guild.helping_block # None /\ ~stale_block
                  THEN <<Fx("set_permissions", c, guild.helping_block, DenyOverwrite)>>
                  ELSE <<>>)
              \o (IF gated(comm_roles # {}, ticket_type.comaccs)
                  THEN community_overwrites(Ascending(comm_roles), inp.gone, c)
                  ELSE <<>>)
              \o (IF gated(comm_pings # {}, ticket_type.comping)
                  THEN <<Fx("send", c, None, JoinMentions(Ascending(comm_pings))),
                         Fx("delete_message", c, None,
                            JoinMentions(Ascending(comm_pings)))>>
                  ELSE <<>>)
              \o (IF gated(guild.strip_buttons, ticket_type.strpbuttns)
                  THEN <<Fx("history", c, None, <<>>)>>
                       \o strip_buttons(inp.history, d.ticket_bots, gld, c)
                  ELSE <<>>)
              \o <<Fx("edit_topic", c, closes,
                      IF user # None THEN <<"Opened by">> ELSE <<>>),
                   Fx("commit", c, None, <<>>)>>
    IN IF is_ignored(ticket_type)
       THEN [db |-> d, plat |-> p, fx |-> <<>>, committed |-> FALSE, ran |-> TRUE,
             new |-> FALSE, ticket |-> NoTicket, ticket_type |-> ticket_type,
             raised |-> FALSE, saved |-> d]
       ELSE IF inp.fail = "create_thread"
       THEN \* channel.create_thread raises: nothing was staged yet
            [db |-> d, plat |-> p, fx |-> <<fx[1]>>, committed |-> FALSE,
             ran |-> TRUE, new |-> FALSE, ticket |-> NoTicket,
             ticket_type |-> ticket_type, raised |-> TRUE, saved |-> d]
       ELSE IF inp.fail = "edit_topic"
       THEN \* channel.edit raises: every earlier call was made, commit is not reached
            [db |-> staged, plat |-> [p EXCEPT !.threads = @ + 1],
             fx |-> SubSeq(fx, 1, Len(fx) - 1), committed |-> FALSE,
             ran |-> TRUE, new |-> got.new, ticket |-> got.ticket,
             ticket_type |-> ticket_type, raised |-> TRUE, saved |-> d]
       ELSE [db |-> staged,
             plat |-> [p EXCEPT !.threads = @ + 1,
                                !.topic[c] = [text |-> "ticket", closes |-> closes]],
             fx |-> fx, committed |-> TRUE, ran |-> TRUE,
             new |-> got.new, ticket |-> got.ticket, ticket_type |-> ticket_type,
             raised |-> FALSE, saved |-> staged]

(***************************************************************************)
(* History of get_ticket calls, per channel: their number (capped) and the *)
(* arguments of the first one.                                             *)
(***************************************************************************)
NoCalls == [n |-> 0, guild_id |-> None, user_id |-> None, staff_note |-> None]

CountCall(c, guild_id, user_id, staff_note) ==
    IF calls[c].n = 0
    THEN [calls EXCEPT ![c] = [n |-> 1, guild_id |-> guild_id, user_id |-> user_id,
                               staff_note |-> staff_note]]
    ELSE [calls EXCEPT ![c].n = IF @ < MaxCalls THEN @ + 1 ELSE @]

(***************************************************************************)
(* Events.on_channel_create (events.py 275-305).  The event is delivered   *)
(* when the platform creates the channel; channel ids are never reused.    *)
(* entries are the (at most 3) latest channel_create audit log entries.    *)
(***************************************************************************)
NotRun(d, p) ==
    [db |-> d, plat |-> p, fx |-> <<>>, committed |-> FALSE, ran |-> FALSE,
     new |-> FALSE, ticket |-> NoTicket, ticket_type |-> DefaultTicketType,
     raised |-> FALSE, saved |-> d]

RECURSIVE scan_audit_logs(_, _, _, _, _)
scan_audit_logs(entries, r, gld, c, inp) ==
    IF entries = <<>> \/ r.raised THEN r
    ELSE LET entry == Head(entries)
         IN IF /\ entry.user # None
               /\ entry.target = c
               /\ check_ticket_bot(r.db.ticket_bots, entry.user, gld)
            THEN LET t == ticket_creation(r.db, r.plat, gld, c, None, inp)
                 IN scan_audit_logs(Tail(entries),
                                    [t EXCEPT !.fx = r.fx \o t.fx,
                                              !.committed = r.committed \/ t.committed,
                                              !.saved = IF t.committed THEN t.saved
                                                        ELSE r.saved],
                                    gld, c, inp)
            ELSE scan_audit_logs(Tail(entries), r, gld, c, inp)

\* Faulty variant of is_integrated: no tenant counts as integrated.
is_integrated_never(guild) == FALSE

\* guild.integrated as both entry points read it (events.py 297,
\* api/handlers.py 137) from the row get_guild returned.
is_integrated(guild) == guild.integrated

channel_created(c, p, entries, inp) ==
    /\ plat.threads < MaxThreads
    /\ LET gld == ChanGuild(c)
           d == [db EXCEPT !.guilds = get_guild(@, gld)]
           r == IF is_integrated(d.guilds[gld]) THEN NotRun(d, p)
                ELSE scan_audit_logs(entries, NotRun(d, p), gld, c, inp)
       IN /\ db' = unit_store(r, db)
          /\ plat' = r.plat
          /\ last' = [Idle EXCEPT !.op = "on_channel_create", !.exc = r.raised,
            !.sess = unit_calls(r.committed, r.raised), !.g = gld, !.ch = c,
                                  !.reply = IF r.raised THEN "HTTPException" ELSE "",
                                  !.new = r.new, !.got = r.ticket,
                                  !.pre = db.tickets[c], !.ran = r.ran,
                                  !.ticket_type = r.ticket_type,
                                  !.ttypes = inp.ttypes, !.gone = inp.gone, !.entries = entries,
                                  !.committed = r.committed, !.fx = r.fx]
          /\ calls' = IF r.committed
                      THEN CountCall(c, gld, None, ThreadId(plat.threads + 1))
                      ELSE calls
          /\ UNCHANGED <<now, toggled, heard, units>>

on_channel_create(c, entries, inp) ==
    /\ c \notin plat.live \cup plat.gone
    /\ channel_created(c, [plat EXCEPT !.live = @ \cup {c}, !.created_at[c] = now],
                       entries, inp)

\* The gateway delivers the event of a channel once more.
on_channel_create_again(c, entries, inp) ==
    /\ c \in plat.live
    /\ channel_created(c, plat, entries, inp)

(***************************************************************************)
(* TicketHandler.post (api/handlers.py 104-154): the creation path of an   *)
(* integrated tenant.                                                      *)
(***************************************************************************)
TicketHandler_post(guild_id, user_id, ticket_channel_id, user_resolves, inp) ==
    /\ plat.threads < MaxThreads
    /\ LET c == ticket_channel_id
           d == [db EXCEPT !.guilds = get_guild(@, guild_id)]
           found == c \in plat.live /\ ChanGuild(c) = guild_id
           user == IF user_resolves THEN user_id ELSE None
           status == IF ~is_integrated(d.guilds[guild_id]) THEN "409"
                     ELSE IF ~found THEN "404" ELSE "200"
           r == IF status = "200"
                THEN ticket_creation(d, plat, guild_id, c, user, inp)
                ELSE NotRun(d, plat)
       IN /\ db' = unit_store(r, db)
          /\ plat' = r.plat
          /\ last' = [Idle EXCEPT !.op = "TicketHandler.post", !.exc = r.raised,
            !.sess = unit_calls(r.committed, r.raised), !.g = guild_id,
                                  !.ch = c, !.key = user, !.new = r.new,
                                  !.got = r.ticket, !.pre = db.tickets[c],
                                  !.ran = r.ran, !.ticket_type = r.ticket_type,
                                  !.ttypes = inp.ttypes, !.gone = inp.gone,
                                  !.reply = IF r.raised THEN "500" ELSE status,
                                  !.committed = r.committed, !.fx = r.fx]
          /\ calls' = IF r.committed
                      THEN CountCall(c, guild_id, user, ThreadId(plat.threads + 1))
                      ELSE calls
          /\ UNCHANGED <<now, toggled, heard, units>>

(***************************************************************************)
(* FreeCommands.register (main_utils.py 287-340).  thread is the optional  *)
(* thread argument of the command, None when it is left out.               *)
(***************************************************************************)
AlreadyTicket == "This channel is already a ticket."
Registered == "Registered channel as a ticket."

register(c, thread) ==
    /\ c \in plat.live
    /\ plat.threads < MaxThreads
    /\ LET gld == ChanGuild(c)
           d == [db EXCEPT !.guilds = get_guild(@, gld)]
           guild == d.guilds[gld]
           made == thread = None
           thr == IF made THEN ThreadId(plat.threads + 1) ELSE thread
           fx == IF made
                 THEN <<Fx("create_thread", c, thr, <<>>),
                        Fx("send", thr, None,
                           safe_substitute(guild.open_message, Mention(c)))>>
                 ELSE <<>>
           \* get_ticket(ctx.channel.id, ctx.guild.id, thread.id): the third
           \* positional parameter of get_ticket is user_id.
           got == get_ticket(d.tickets, c, gld, thr, None)
       IN /\ db' = IF got.new THEN [d EXCEPT !.tickets = got.tickets] ELSE db
          /\ plat' = IF made THEN [plat EXCEPT !.threads = @ + 1] ELSE plat
          /\ last' = [Idle EXCEPT !.op = "register", !.exc = ~got.new,
            !.sess = unit_calls(got.new, ~got.new), !.g = gld, !.ch = c,
                                  !.key = thread, !.new = got.new, !.got = got.ticket,
                                  !.pre = db.tickets[c],
                                  !.reply = IF got.new THEN Registered
                                            ELSE AlreadyTicket,
                                  !.committed = got.new,
                                  !.fx = fx \o <<Fx("get_ticket", c, thr, <<>>)>>
                                         \o (IF got.new
                                             THEN <<Fx("commit", c, None, <<>>)>>
                                             ELSE <<>>)]
          /\ calls' = CountCall(c, gld, thr, None)
          /\ UNCHANGED <<now, toggled, heard, units>>

(***************************************************************************)
(* StaffCmmd.register (staff.py 171-217).  With no thread argument the     *)
(* handler reads guild.legacy_threads, which models.Guild does not have:   *)
(* AttributeError before any call is made.                                 *)
(***************************************************************************)
staff_register(c, thread) ==
    /\ c \in plat.live
    /\ LET gld == ChanGuild(c)
           d == [db EXCEPT !.guilds = get_guild(@, gld)]
           got == get_ticket(d.tickets, c, gld, thread, None)
           raised == thread = None
       IN /\ db' = IF ~raised /\ got.new THEN [d EXCEPT !.tickets = got.tickets]
                   ELSE db
          /\ last' = [Idle EXCEPT !.op = "staff_register", !.exc = raised \/ ~got.new,
            !.sess = unit_calls(~raised /\ got.new, raised \/ ~got.new), !.g = gld, !.ch = c,
                                  !.key = thread,
                                  !.new = ~raised /\ got.new,
                                  !.got = IF raised THEN NoTicket ELSE got.ticket,
                                  !.pre = db.tickets[c],
                                  !.reply = IF raised THEN "AttributeError"
                                            ELSE IF got.new THEN Registered
                                            ELSE AlreadyTicket,
                                  !.committed = ~raised /\ got.new,
                                  !.fx = IF raised THEN <<>>
                                         ELSE <<Fx("get_ticket", c, thread, <<>>)>>
                                              \o (IF got.new
                                                  THEN <<Fx("commit", c, None, <<>>)>>
                                                  ELSE <<>>)]
          /\ calls' = IF raised THEN calls ELSE CountCall(c, gld, thread, None)
          /\ UNCHANGED <<plat, now, toggled, heard, units>>

(***************************************************************************)
(* Events.on_channel_delete (events.py 307-324).                           *)
(***************************************************************************)
on_channel_delete(c) ==
    /\ c \in plat.live
    /\ LET ticket == fetch_ticket(db.tickets, c)
       IN /\ db' = IF ticket.exists THEN [db EXCEPT !.tickets[c] = NoTicket] ELSE db
          /\ plat' = [plat EXCEPT !.live = @ \ {c}, !.gone = @ \cup {c}]
          /\ last' = [Idle EXCEPT !.op = "on_channel_delete", !.exc = FALSE,
            !.sess = unit_calls(ticket.exists, FALSE), !.g = ChanGuild(c),
                                  !.ch = c, !.pre = ticket,
                                  !.committed = ticket.exists,
                                  !.fx = IF ticket.exists
                                         THEN <<Fx("delete", c, None, <<>>),
                                                Fx("commit", c, None, <<>>)>>
                                         ELSE <<>>]
          /\ UNCHANGED <<now, toggled, calls, heard, units>>

(***************************************************************************)
(* FreeCommands.anonymize (main_utils.py 258-285; staff.py 141-169).       *)
(***************************************************************************)
\* Faulty variant of flipped: the command switches anonymity on.
flipped_on(anonymous) == TRUE

\* ticket.anonymous = not ticket.anonymous (staff.py 163)
flipped(anonymous) == ~anonymous

anonymize(c) ==
    /\ c \in plat.live
    /\ LET ticket == fetch_ticket(db.tickets, c)
       IN /\ db' = IF ticket.exists
                   THEN [db EXCEPT !.tickets[c].anonymous = flipped(ticket.anonymous)]
                   ELSE db
          /\ last' = [Idle EXCEPT !.op = "anonymize", !.exc = ~ticket.exists,
            !.sess = unit_calls(ticket.exists, ~ticket.exists), !.g = ChanGuild(c), !.ch = c,
                                  !.pre = ticket,
                                  !.reply = IF ticket.exists THEN "Success!"
                                            ELSE "This channel is not a ticket.",
                                  !.committed = ticket.exists]
          /\ UNCHANGED <<plat, now, toggled, calls, heard, units>>

(***************************************************************************)
(* The first generation of the bot (package ticket_plus).  Its __aexit__   *)
(* closes the session only when an exception left the block; its one unit *)
(* of work, /settings tracked, commits and closes at the end of its body.  *)
(* fails tells whether the interaction response raised.                    *)
(***************************************************************************)
ticket_plus_aexit(exc) == IF exc THEN <<"rollback", "close">> ELSE <<>>

ticket_plus_get_ticket_user(ticket_users, user_id, guild_id) ==
    [new |-> <<user_id, guild_id>> \notin ticket_users,
     ticket_users |-> ticket_users \cup {<<user_id, guild_id>>}]

ticket_plus_change_tracked(user, guild_id, fails) ==
    LET got == ticket_plus_get_ticket_user(db.ticket_users, user, guild_id)
        staged == IF got.new THEN got.ticket_users
                  ELSE got.ticket_users \ {<<user, guild_id>>}
        body == IF fails THEN <<>> ELSE <<"commit", "close">>
    IN /\ db' = persisted(~fails, [db EXCEPT !.ticket_users = staged], db)
       /\ last' = [Idle EXCEPT !.op = "ticket_plus.change_tracked",
                               !.g = guild_id, !.key = user,
                               !.new = got.new, !.exc = fails,
                               !.committed = ~fails,
                               !.sess = body \o ticket_plus_aexit(fails),
                               !.reply = IF fails THEN "HTTPException"
                                         ELSE IF got.new THEN "Tracked"
                                         ELSE "Untracked",
                               !.fx = <<Fx("send_message", None, user, <<>>)>>]
       /\ UNCHANGED <<plat, now, toggled, calls, heard, units>>

(***************************************************************************)
(* The clock, in minutes.                                                  *)
(***************************************************************************)
Tick ==
    /\ now < MaxTime
    /\ now' = now + 1
    /\ last' = [Idle EXCEPT !.op = "tick"]
    /\ UNCHANGED <<db, plat, toggled, calls, heard, units>>

(***************************************************************************)
(* discord.utils.escape_mentions: re.sub of                                *)
(* @(everyone|here|[!&]?[0-9]{17,20}) by "@", U+200B and the group.  Texts *)
(* are sequences of characters; ZWSP stands for U+200B.                    *)
(***************************************************************************)
ZWSP == "\\u200b"
Digits == {"0", "1", "2", "3", "4", "5", "6", "7", "8", "9"}
SnowflakeMin == 17

DigitsAt(s) ==
    /\ Len(s) >= SnowflakeMin
    /\ \A i \in 1..SnowflakeMin : s[i] \in Digits

MentionAt(s) ==
    \/ startswith(s, <<"e", "v", "e", "r", "y", "o", "n", "e">>)
    \/ startswith(s, <<"h", "e", "r", "e">>)
    \/ DigitsAt(s)
    \/ Len(s) >= 1 /\ s[1] \in {"!", "&"} /\ DigitsAt(Tail(s))

RECURSIVE escape_mentions(_)
escape_mentions(s) ==
    IF s = <<>> THEN <<>>
    ELSE IF Head(s) = "@" /\ MentionAt(Tail(s))
         THEN <<"@", ZWSP>> \o escape_mentions(Tail(s))
         ELSE <<Head(s)>> \o escape_mentions(Tail(s))

(***************************************************************************)
(* Events.handle_anon (events.py 204-236): the calls it makes for a        *)
(* message in channel c of guild g.                                        *)
(***************************************************************************)
\* Faulty variant of holds_staff_role: every author counts as staff.
holds_staff_role_always(staff_roles, author_roles) == TRUE

\* events.py 221-229: some configured staff role is among the author's roles
holds_staff_role(staff_roles, author_roles) ==
    \E role \in staff_roles : role \in author_roles

\* Faulty variant of relay_calls: the original is deleted before the re-post.
relay_calls_delete_first(send, delete) == <<delete, send>>

\* events.py 231-236: message.channel.send(...), then message.delete()
relay_calls(send, delete) == <<send, delete>>

handle_anon(message, ticket, d, g, c) ==
    IF ticket.anonymous
    THEN IF ticket.user_id = message.author
         THEN <<>>
         ELSE IF ~holds_staff_role(RolesOf(d.staff_roles, g), message.roles)
              THEN <<>>
              ELSE relay_calls(Fx("send", c, None,
                                  <<"**", d.guilds[g].staff_team_name, ":** ">>
                                  \o escape_mentions(message.content)),
                               Fx("delete_message", c, None, message.content))
    ELSE <<>>

(***************************************************************************)
(* Events.update_autoclose (events.py 238-273).                            *)
(***************************************************************************)
\* Faulty variant of time_since_update: the time elapsed plus the throttle.
time_since_update_unthrottled(ticket, utcnow) == utcnow - ticket.last_response + 5

\* events.py 253-254
time_since_update(ticket, utcnow) == ticket.last_response - utcnow

\* datetime.timedelta(minutes=5)
AutocloseThrottle == 5

\* events.py 256-270: the new topic
autoclose_topic(crrnt, closes) ==
    IF crrnt = NoTopic
    THEN [text |-> "autoclose", closes |-> closes]
    ELSE IF crrnt.closes # None THEN [crrnt EXCEPT !.closes = closes] ELSE crrnt

update_autoclose(message, ticket, guild, crrnt, utcnow, c) ==
    IF /\ guild.any_autoclose # None
       /\ time_since_update(ticket, utcnow) >= AutocloseThrottle
    THEN LET closes == message.created_at + guild.any_autoclose
         IN [edit |-> TRUE, topic |-> autoclose_topic(crrnt, closes),
             fx |-> <<Fx("edit_topic", c, closes, <<>>), Fx("commit", c, None, <<>>)>>]
    ELSE [edit |-> FALSE, topic |-> crrnt, fx |-> <<>>]

(***************************************************************************)
(* Events.on_message (events.py 374-397).  A direct message has no guild   *)
(* and arrives in DMChannel.  The contents of the model hold no message    *)
(* permalink, so message_discovery finds nothing to reply to.              *)
(***************************************************************************)
DMChannel == 0

\* The last two messages handled in a ticket: when, and whether
\* update_autoclose edited the topic.
NotHeard ==
    [n |-> 0, at |-> None, edited |-> FALSE, prev_at |-> None, prev_edited |-> FALSE]

Hear(h, at, edited) ==
    [n |-> IF h.n < 2 THEN h.n + 1 ELSE 2, at |-> at, edited |-> edited,
     prev_at |-> h.at, prev_edited |-> h.edited]

\* Faulty variant of ignored: only direct messages are ignored.
ignored_dm_only(message, c) == c = DMChannel

\* events.py 387-388: message.author.bot or message.guild is None
ignored(message, c) == message.bot \/ c = DMChannel

on_message(c, message) ==
    /\ c \in plat.live \cup {DMChannel}
    /\ message.created_at \in {now, now - 1} \cap Nat
    /\ IF ignored(message, c)
       THEN /\ last' = [Idle EXCEPT !.op = "on_message", !.ch = c, !.msg = message,
                                    !.sess = unit_calls(FALSE, FALSE)]
            /\ UNCHANGED <<db, plat, heard, units>>
       ELSE LET g == ChanGuild(c)
                d == [db EXCEPT !.guilds = get_guild(@, g)]
                ticket == fetch_ticket(d.tickets, c)
                anon == handle_anon(message, ticket, d, g, c)
                auto == update_autoclose(message, ticket, d.guilds[g],
                                         plat.topic[c], now, c)
            IN IF ticket.exists
               THEN /\ db' = IF auto.edit
                             THEN [d EXCEPT !.tickets[c].last_response = now]
                             ELSE db
                    /\ plat' = [plat EXCEPT !.topic[c] = auto.topic]
                    /\ last' = [Idle EXCEPT !.op = "on_message", !.g = g, !.ch = c,
                                            !.msg = message, !.pre = ticket,
                                            !.ran = TRUE,
                                            !.committed = auto.edit,
                                            !.sess = unit_calls(auto.edit, FALSE),
                                            !.fx = anon \o auto.fx]
                    /\ heard' = [heard EXCEPT ![c] = Hear(@, now, auto.edit)]
               ELSE /\ last' = [Idle EXCEPT !.op = "on_message", !.g = g, !.ch = c,
                                            !.msg = message, !.ran = TRUE,
                                            !.sess = unit_calls(FALSE, FALSE)]
                    /\ UNCHANGED <<db, plat, heard, units>>
    /\ UNCHANGED <<now, toggled, calls, units>>

(***************************************************************************)
(* The messages of a channel and the events they cause.  plat.posts are    *)
(* the messages that exist, plat.events the messages whose on_message      *)
(* event has not been handled yet, plat.relayed the ids of the messages    *)
(* handle_anon set out to relay.  A message the bot sends is a message of  *)
(* the channel like any other and causes an event of its own; gen counts   *)
(* how many relays lie between a message and the message a user wrote, and *)
(* `of' is the id of the message a copy was made of.                       *)
(***************************************************************************)
BotUser == 3

Post(id, c, author, bot, content, at, gen, of) ==
    [id |-> id, ch |-> c, author |-> author, bot |-> bot, content |-> content,
     created_at |-> at, gen |-> gen, of |-> of]

\* discord.Member.roles of the author
RolesHeld(p, author) == {r \in Roles : <<author, r>> \in p.held}

\* Someone writes a message in channel c.
post_message(c, author, bot, content) ==
    /\ c \in plat.live \cup {DMChannel}
    /\ plat.nposts < MaxPosts
    /\ LET m == Post(plat.nposts + 1, c, author, bot, content, now, 0, None)
       IN plat' = [plat EXCEPT !.posts = @ \cup {m}, !.events = @ \cup {m},
                               !.nposts = @ + 1]
    /\ last' = [Idle EXCEPT !.op = "post_message", !.ch = c, !.key = author]
    /\ UNCHANGED <<db, now, toggled, calls, heard, units>>

\* The calls of handle_anon against the channel, in call order, up to the
\* call that raises: send adds the copy (a message of the bot), delete
\* removes the original.
RECURSIVE relay(_, _, _, _, _)
relay(todo, m, fails, p, r) ==
    IF todo = <<>> THEN r
    ELSE LET call == Head(todo)
         IN IF call.k = fails THEN [r EXCEPT !.raised = TRUE]
            ELSE IF call.k = "send"
            THEN LET copy == Post(p.nposts + 1, m.ch, BotUser, TRUE, call.txt, now,
                                  m.gen + 1, m.id)
                 IN relay(Tail(todo), m, fails, p,
                          [r EXCEPT !.posts = @ \cup {copy}, !.made = @ \cup {copy},
                                    !.fx = Append(@, call)])
            ELSE relay(Tail(todo), m, fails, p,
                       [r EXCEPT !.posts = @ \ {m}, !.fx = Append(@, call)])

\* Events.on_message (events.py 374-397) for the event of message m, with
\* the call that raises, if one does.  An exception leaves the handler
\* before update_autoclose and the session is rolled back.
message_event(m, fails) ==
    /\ m \in plat.events
    /\ plat.nposts < MaxPosts
    /\ LET c == m.ch
           message == [author |-> m.author, bot |-> m.bot,
                       roles |-> RolesHeld(plat, m.author), content |-> m.content,
                       created_at |-> m.created_at]
       IN IF ignored(message, c)
          THEN /\ fails = "none"
               /\ plat' = [plat EXCEPT !.events = @ \ {m}]
               /\ last' = [Idle EXCEPT !.op = "on_message", !.ch = c, !.key = m.id,
                                       !.msg = message,
                                       !.sess = unit_calls(FALSE, FALSE)]
               /\ db' = db
          ELSE LET g == ChanGuild(c)
                   d == [db EXCEPT !.guilds = get_guild(@, g)]
                   ticket == fetch_ticket(d.tickets, c)
                   anon == IF ticket.exists THEN handle_anon(message, ticket, d, g, c)
                           ELSE <<>>
                   r == relay(anon, m, fails, plat,
                              [posts |-> plat.posts, made |-> {}, fx |-> <<>>,
                               raised |-> FALSE])
                   auto == IF ticket.exists /\ ~r.raised
                           THEN update_autoclose(message, ticket, d.guilds[g],
                                                 plat.topic[c], now, c)
                           ELSE [edit |-> FALSE, topic |-> plat.topic[c], fx |-> <<>>]
               IN /\ fails = "none" \/ \E i \in 1..Len(anon) : anon[i].k = fails
                  /\ db' = IF auto.edit
                            THEN [d EXCEPT !.tickets[c].last_response = now]
                            ELSE db
                  /\ plat' = [plat EXCEPT !.topic[c] = auto.topic,
                                          !.posts = r.posts,
                                          !.events = (@ \ {m}) \cup r.made,
                                          !.nposts = @ + Cardinality(r.made),
                                          !.relayed = IF anon # <<>> THEN @ \cup {m.id}
                                                      ELSE @]
                  /\ last' = [Idle EXCEPT !.op = "on_message", !.g = g, !.ch = c,
                                          !.key = m.id, !.msg = message,
                                          !.pre = ticket, !.ran = TRUE,
                                          !.exc = r.raised,
                                          !.reply = IF r.raised THEN fails ELSE "",
                                          !.committed = auto.edit,
                                          !.sess = unit_calls(auto.edit, r.raised),
                                          !.fx = r.fx \o auto.fx]
    /\ UNCHANGED <<now, toggled, calls, heard, units>>

(***************************************************************************)
(* models.Member and the penalty commands.  The platform side: plat.guilds *)
(* are the guilds the bot is in, plat.members the (user, guild) pairs of   *)
(* their members, plat.roles the roles that exist, plat.held the (user,    *)
(* role) pairs of the roles members hold.                                  *)
(***************************************************************************)
NoMember == [exists |-> FALSE, status |-> 0, status_till |-> None]
NewMember == [exists |-> TRUE, status |-> 0, status_till |-> None]

\* OnlineConfig.get_member
get_member(members, user_id, guild_id) ==
    IF members[<<user_id, guild_id>>].exists THEN members
    ELSE [members EXCEPT ![<<user_id, guild_id>>] = NewMember]

\* Faulty variant of get_expired_members: a NULL status_till counts as expired.
get_expired_members_or_null(members, utcnow) ==
    {k \in DOMAIN members :
        /\ members[k].exists
        /\ members[k].status_till = None \/ members[k].status_till <= utcnow}

\* Faulty variant of get_expired_members: the comparison is reversed.
get_expired_members_reversed(members, utcnow) ==
    {k \in DOMAIN members :
        /\ members[k].exists
        /\ members[k].status_till # None
        /\ members[k].status_till > utcnow}

\* OnlineConfig.get_expired_members: status_till <= utcnow; a NULL status_till
\* compares as unknown and is not selected.
get_expired_members(members, utcnow) ==
    {k \in DOMAIN members :
        /\ members[k].exists
        /\ members[k].status_till # None
        /\ members[k].status_till <= utcnow}

\* discord.Guild.get_role
get_role(p, g, role_id) ==
    IF role_id \in p.roles /\ RoleGuild(role_id) = g THEN role_id ELSE None

\* discord.Member.remove_roles(*roles): one request per role, in order; a
\* role that is None has no id.
RECURSIVE remove_roles(_, _, _)
remove_roles(held, usr_id, rles) ==
    IF rles = <<>> THEN [held |-> held, raised |-> FALSE]
    ELSE IF Head(rles) = None THEN [held |-> held, raised |-> TRUE]
    ELSE remove_roles(held \ {<<usr_id, Head(rles)>>}, usr_id, Tail(rles))

\* Faulty variant of get_actv_member: every stored member resolves.
get_actv_member_any(p, usr_id, guild_id) == usr_id

\* bot.get_guild(guild_id) followed by guild.get_member(usr_id), as both
\* sweeps do (routines.py 73-79 and 116-121): None when either is unresolved.
get_actv_member(p, usr_id, guild_id) ==
    IF guild_id \in p.guilds /\ <<usr_id, guild_id>> \in p.members THEN usr_id
    ELSE None

(***************************************************************************)
(* Routines.clean_status (routines.py 62-89), one tick.  rehabilitated is  *)
(* the result of get_expired_members in the order the query returned it.   *)
(* An exception leaves the unit of work without commit and ends the loop   *)
(* of the task.                                                            *)
(***************************************************************************)
RECURSIVE sweep_members(_, _, _, _)
sweep_members(rehabilitated, d, p, r) ==
    IF rehabilitated = <<>> \/ r.raised THEN r
    ELSE LET k == Head(rehabilitated)
             usr_id == k[1]
             gld == d.guilds[k[2]]
         IN IF get_actv_member(p, usr_id, k[2]) = None
            THEN sweep_members(Tail(rehabilitated), d, p, r)
            ELSE LET rles == (IF gld.helping_block # None
                              THEN <<get_role(p, k[2], gld.helping_block)>> ELSE <<>>)
                             \o (IF gld.support_block # None
                                 THEN <<get_role(p, k[2], gld.support_block)>> ELSE <<>>)
                     rm == remove_roles(r.held, usr_id, rles)
                 IN sweep_members(Tail(rehabilitated), d, p,
                        [members |-> IF rm.raised THEN r.members
                                     ELSE [r.members EXCEPT ![k] =
                                              [@ EXCEPT !.status = 0,
                                                        !.status_till = None]],
                         held |-> rm.held,
                         raised |-> rm.raised,
                         fx |-> Append(r.fx, Fx("remove_roles", k[2], usr_id, rles))])

clean_status(rehabilitated) ==
    /\ plat.sweeping
    /\ LET r == sweep_members(rehabilitated, db, plat,
                              [members |-> db.members, held |-> plat.held,
                               raised |-> FALSE, fx |-> <<>>])
       IN /\ db' = IF r.raised THEN db ELSE [db EXCEPT !.members = r.members]
          /\ plat' = [plat EXCEPT !.held = r.held, !.sweeping = ~r.raised]
          /\ last' = [Idle EXCEPT !.op = "clean_status", !.exc = r.raised,
            !.sess = unit_calls(~r.raised, r.raised),
                                  !.reply = IF r.raised THEN "AttributeError" ELSE "",
                                  !.committed = ~r.raised,
                                  !.fx = IF r.raised THEN r.fx
                                         ELSE Append(r.fx, Fx("commit", None, None, <<>>))]
    /\ UNCHANGED <<now, toggled, calls, heard, units>>

(***************************************************************************)
(* Routines.notify_users (routines.py 100-134), one tick.  tickets is the  *)
(* result of get_pending_tickets in the order the query returned it.       *)
(***************************************************************************)
\* Faulty variant of get_pending_tickets: the notified flag is not read.
get_pending_tickets_again(d, utcnow) ==
    {c \in Channels :
        /\ d.tickets[c].exists
        /\ d.guilds[d.tickets[c].guild_id].exists
        /\ d.guilds[d.tickets[c].guild_id].warn_autoclose # None
        /\ d.tickets[c].last_response
              <= utcnow - d.guilds[d.tickets[c].guild_id].warn_autoclose}

\* OnlineConfig.get_pending_tickets: Ticket joined with its Guild.
get_pending_tickets(d, utcnow) ==
    {c \in Channels :
        /\ d.tickets[c].exists
        /\ d.guilds[d.tickets[c].guild_id].exists
        /\ d.guilds[d.tickets[c].guild_id].warn_autoclose # None
        /\ d.tickets[c].notified # TRUE
        /\ d.tickets[c].last_response
              <= utcnow - d.guilds[d.tickets[c].guild_id].warn_autoclose}

\* The text of the warning: the channel and, when an any-response auto-close
\* is configured, the time the ticket will be closed.
warning_text(ticket, gld, c) ==
    <<"ticket", c,
      IF gld.any_autoclose # None /\ gld.any_autoclose # 0
      THEN ticket.last_response + gld.any_autoclose ELSE None>>

RECURSIVE warn_tickets(_, _, _)
warn_tickets(tickets, p, r) ==
    IF tickets = <<>> THEN r
    ELSE LET c == Head(tickets)
             ticket == r.db.tickets[c]
             gld == r.db.guilds[ticket.guild_id]
             marked == [r.db EXCEPT !.tickets[c].notified = TRUE]
         IN IF \/ ticket.user_id = None
               \/ get_actv_member(p, ticket.user_id, ticket.guild_id) = None
            THEN warn_tickets(Tail(tickets), p, [r EXCEPT !.db = marked])
            ELSE warn_tickets(Tail(tickets), p,
                    [db |-> marked,
                     fx |-> Append(r.fx, Fx("send", c, ticket.user_id,
                                           warning_text(ticket, gld, c)))])

MaxWarnings == 2

\* The direct messages a tick delivered, added to the count of warnings each
\* ticket's user has received (counted up to MaxWarnings).
delivered(dms, fx) ==
    [c \in Channels |->
        LET n == dms[c] + Cardinality({i \in 1..Len(fx) :
                                          fx[i].k = "send" /\ fx[i].ch = c})
        IN IF n > MaxWarnings THEN MaxWarnings ELSE n]

notify_users(tickets) ==
    /\ plat.notifying
    /\ LET r == warn_tickets(tickets, plat, [db |-> db, fx |-> <<>>])
       IN /\ db' = persisted(TRUE, r.db, db)
          /\ plat' = [plat EXCEPT !.dms = delivered(@, r.fx)]
          /\ last' = [Idle EXCEPT !.op = "notify_users",
                                  !.committed = TRUE,
                                  !.sess = unit_calls(TRUE, FALSE),
                                  !.fx = Append(r.fx, Fx("commit", None, None, <<>>))]
    /\ UNCHANGED <<now, toggled, calls, heard, units>>

\* The store after a tick whose send raised: the exception leaves the
\* `async with' block before conn.commit() (routines.py 134), and
\* OnlineConfig.__aexit__ rolls the session back (layer.py 77-93).
unsent(staged, stored) == rollback(staged, stored)

\* One tick in which actv_member.send (routines.py 133) raises for the i-th
\* fetched ticket: the tickets before it are handled as in any tick, their
\* warnings are delivered, and nothing the tick marked is committed.  A
\* connection error (reconnect) is retried by the task loop; any other
\* exception, such as Forbidden for closed direct messages, ends the loop.
notify_users_raising(tickets, i, reconnect) ==
    /\ plat.notifying
    /\ i \in 1..Len(tickets)
    /\ LET c == tickets[i]
           r == warn_tickets(SubSeq(tickets, 1, i - 1), plat, [db |-> db, fx |-> <<>>])
           ticket == r.db.tickets[c]
           marked == [r.db EXCEPT !.tickets[c].notified = TRUE]
       IN /\ ticket.user_id # None
          /\ get_actv_member(plat, ticket.user_id, ticket.guild_id) # None
          /\ db' = unsent(marked, db)
          /\ plat' = [plat EXCEPT !.dms = delivered(@, r.fx),
                                  !.notifying = reconnect]
          /\ last' = [Idle EXCEPT !.op = "notify_users",
                                  !.exc = TRUE,
                                  !.ch = c,
                                  !.reply = IF reconnect THEN "ClientError" ELSE "Forbidden",
                                  !.sess = unit_calls(FALSE, TRUE),
                                  !.fx = r.fx]
    /\ UNCHANGED <<now, toggled, calls, heard, units>>

\* Routines.__init__ (routines.py 40-51): loading the cog starts both loops.
Routines_init ==
    /\ plat' = [plat EXCEPT !.notifying = TRUE, !.sweeping = TRUE]
    /\ last' = [Idle EXCEPT !.op = "Routines_init"]
    /\ UNCHANGED <<db, now, toggled, calls, heard, units>>

(***************************************************************************)
(* StaffCmmd.usrstatus (staff.py 219-316).  target is a member of the      *)
(* guild of the interaction; roles is the result of                        *)
(* get_all_community_roles in the order the query returned it.  A request  *)
(* for a role that no longer exists is answered NotFound.                  *)
(***************************************************************************)
\* discord.Member.remove_roles(*[discord.Object(id)])
RECURSIVE remove_objects(_, _, _, _)
remove_objects(p, held, usr_id, rles) ==
    IF rles = <<>> THEN [held |-> held, raised |-> FALSE]
    ELSE IF Head(rles) \notin p.roles THEN [held |-> held, raised |-> TRUE]
    ELSE remove_objects(p, held \ {<<usr_id, Head(rles)>>}, usr_id, Tail(rles))

\* Faulty variant of status_block: whichever penalty role is configured.
status_block_either(gld, status) ==
    IF gld.support_block # None THEN gld.support_block ELSE gld.helping_block

\* member.guild.support_block for status 1, member.guild.helping_block for
\* status 2 (staff.py 278-279, 293-294)
status_block(gld, status) ==
    IF status = 1 THEN gld.support_block ELSE gld.helping_block

usrstatus(target, guild_id, status, minutes, roles) ==
    /\ guild_id \in plat.guilds
    /\ <<target, guild_id>> \in plat.members
    /\ LET k == <<target, guild_id>>
           d == [db EXCEPT !.guilds = get_guild(@, guild_id),
                           !.members = get_member(@, target, guild_id)]
           gld == d.guilds[guild_id]
           till == IF status = 0 \/ minutes = 0 THEN None ELSE now + minutes
           staged == [d EXCEPT !.members[k] = [@ EXCEPT !.status = status,
                                                        !.status_till = till]]
           block == status_block(gld, status)
           strip == IF status = 2 /\ gld.strip_roles
                    THEN remove_objects(plat, plat.held \cup {<<target, block>>},
                                        target, roles)
                    ELSE [held |-> plat.held \cup {<<target, block>>}, raised |-> FALSE]
           reply == IF status = 0 THEN "Success!"
                    ELSE IF block = None THEN "InvalidParameters"
                    ELSE IF block \notin plat.roles \/ strip.raised THEN "NotFound"
                    ELSE "Success!"
           ok == reply = "Success!"
       IN /\ db' = IF ok THEN staged ELSE db
          /\ plat' = IF status = 0 \/ block = None \/ block \notin plat.roles
                     THEN plat
                     ELSE [plat EXCEPT !.held = strip.held]
          /\ last' = [Idle EXCEPT !.op = "usrstatus", !.exc = ~ok,
            !.sess = unit_calls(ok, ~ok), !.g = guild_id, !.key = target,
                                  !.arg = status,
                                  !.reply = reply, !.committed = ok,
                                  !.fx = (IF status # 0 /\ block # None
                                          THEN <<Fx("add_roles", guild_id, target, <<block>>)>>
                                          ELSE <<>>)
                                         \o (IF status = 2 /\ block \in plat.roles
                                                /\ gld.strip_roles
                                             THEN <<Fx("remove_roles", guild_id, target, roles)>>
                                             ELSE <<>>)
                                         \o (IF ok
                                             THEN <<Fx("commit", None, None, <<>>),
                                                    Fx("followup", None, target, <<>>),
                                                    Fx("send", None, target, <<>>)>>
                                             ELSE <<>>)]
    /\ UNCHANGED <<now, toggled, calls, heard, units>>

(***************************************************************************)
(* Platform events the bot has no handler for: a member leaves, a role is  *)
(* deleted, the bot is removed from a guild.  They decide what             *)
(* get_guild, get_member and get_role resolve (routines.py 73-83).         *)
(***************************************************************************)
member_remove(usr_id, g) ==
    /\ <<usr_id, g>> \in plat.members
    /\ plat' = [plat EXCEPT !.members = @ \ {<<usr_id, g>>},
                            !.held = {h \in @ : ~(h[1] = usr_id /\ RoleGuild(h[2]) = g)}]
    /\ last' = [Idle EXCEPT !.op = "member_remove", !.g = g, !.key = usr_id]
    /\ UNCHANGED <<db, now, toggled, calls, heard, units>>

role_delete(role_id) ==
    /\ role_id \in plat.roles
    /\ plat' = [plat EXCEPT !.roles = @ \ {role_id},
                            !.held = {h \in @ : h[2] # role_id}]
    /\ last' = [Idle EXCEPT !.op = "role_delete", !.key = role_id]
    /\ UNCHANGED <<db, now, toggled, calls, heard, units>>

guild_remove(g) ==
    /\ g \in plat.guilds
    /\ plat' = [plat EXCEPT !.guilds = @ \ {g},
                            !.members = {k \in @ : k[2] # g},
                            !.roles = {r \in @ : RoleGuild(r) # g},
                            !.held = {h \in @ : RoleGuild(h[2]) # g}]
    /\ last' = [Idle EXCEPT !.op = "guild_remove", !.g = g]
    /\ UNCHANGED <<db, now, toggled, calls, heard, units>>

(***************************************************************************)
(* Events.on_member_join (events.py 326-372): usr joins guild g.  The       *)
(* Guild and Member rows are staged by get_member when absent; only the    *)
(* two pardon branches commit.                                             *)
(***************************************************************************)
\* Faulty variant of penalty_expired: the penalty never lapses.
penalty_expired_never(member, utcnow) == FALSE

\* events.py 339-343: status_till is set and not after utcnow.
penalty_expired(member, utcnow) ==
    member.status_till # None /\ member.status_till <= utcnow

\* Faulty variant of penalty_block: the two roles are exchanged.
penalty_block_exchanged(member, gld) ==
    IF member.status = 1 THEN gld.helping_block
    ELSE IF member.status = 2 THEN gld.support_block
    ELSE None

\* events.py 349-371: the penalty role column read for the member's status.
penalty_block(member, gld) ==
    IF member.status = 1 THEN gld.support_block
    ELSE IF member.status = 2 THEN gld.helping_block
    ELSE None

on_member_join(usr, g) ==
    /\ g \in plat.guilds
    /\ <<usr, g>> \notin plat.members
    /\ LET k == <<usr, g>>
           d == [db EXCEPT !.guilds = get_guild(@, g),
                           !.members = get_member(@, usr, g)]
           actv_member == d.members[k]
           block == penalty_block(actv_member, d.guilds[g])
           pardon == /\ actv_member.status # 0
                     /\ \/ penalty_expired(actv_member, now)
                        \/ actv_member.status \in {1, 2} /\ block = None
           role == IF actv_member.status \in {1, 2} /\ ~pardon
                   THEN get_role(plat, g, block) ELSE None
           staged == IF pardon
                     THEN [d EXCEPT !.members[k] = [@ EXCEPT !.status = 0,
                                                             !.status_till = None]]
                     ELSE d
       IN /\ db' = persisted(pardon, staged, db)
          /\ plat' = [plat EXCEPT !.members = @ \cup {k},
                                  !.held = IF role # None THEN @ \cup {<<usr, role>>}
                                           ELSE @]
          /\ last' = [Idle EXCEPT !.op = "on_member_join", !.g = g, !.key = usr,
                                  !.new = ~db.members[k].exists,
                                  !.pre = db.members[k],
                                  !.committed = pardon,
                                  !.sess = unit_calls(pardon, FALSE),
                                  !.fx = (IF role # None
                                          THEN <<Fx("add_roles", g, usr, <<role>>)>>
                                          ELSE <<>>)
                                         \o (IF pardon
                                             THEN <<Fx("commit", None, None, <<>>)>>
                                             ELSE <<>>)]
    /\ UNCHANGED <<now, toggled, calls, heard, units>>

(***************************************************************************)
(* is_staff_check.is_staff (ext/checks.py 94-129).  guild is None for an   *)
(* invocation outside a guild; roles are the roles the caller holds in the *)
(* guild; app is the application info: the ids of the members of the       *)
(* owning team (empty without a team) and the id of app.owner.  A check    *)
(* that returns False is turned into CheckFailure by app_commands.         *)
(***************************************************************************)
\* checks.py 117: interaction.user.id in app.team.members.  The members are
\* discord.TeamMember objects, which compare equal to users only, so the
\* test of an int against them is never true.
in_team_members(user_id, members) == FALSE

\* checks.py 122-127: one of the tenant's staff roles resolves to a role the
\* caller holds.
holds_configured_staff_role(tbl, p, guild, roles) ==
    \E role_id \in RolesOf(tbl, guild) : get_role(p, guild, role_id) \in roles

is_staff(guild, user, roles, app) ==
    /\ guild # None => guild \in plat.guilds /\ <<user, guild>> \in plat.members
    /\ roles \subseteq {r \in plat.roles : RoleGuild(r) = guild}
    /\ LET owner == \/ app.team # {} /\ in_team_members(user, app.team)
                    \/ user = app.owner
           d == [db EXCEPT !.guilds = get_guild(@, guild)]
           staff == holds_configured_staff_role(d.staff_roles, plat, guild, roles)
           opened == guild # None /\ ~owner
       IN /\ db' = IF opened THEN persisted(FALSE, d, db) ELSE db
          /\ last' = [Idle EXCEPT !.op = "is_staff", !.g = guild, !.key = user,
                                  !.msg = [NoMessage EXCEPT !.author = user,
                                                            !.roles = roles],
                                  !.pre = app,
                                  !.sess = IF opened THEN unit_calls(FALSE, FALSE)
                                           ELSE <<>>,
                                  !.reply = IF guild = None THEN "CheckFailure"
                                            ELSE IF owner \/ staff THEN "allowed"
                                            ELSE "TicketsCheckFailure"]
    /\ UNCHANGED <<plat, now, toggled, calls, heard, units>>

(***************************************************************************)
(* Two units of work in flight at once, each with its own session.  A unit *)
(* is /register (get_ticket, main_utils.py 287-340) or /settings staff     *)
(* (get_staff_role, settings.py 75-105).  Its get-or-create selects the    *)
(* row by primary key from what is committed and adds a new object to the  *)
(* session when none is found; other coroutines run at every await until   *)
(* the unit commits.  The INSERT of the commit fails on the primary key    *)
(* when another session committed the same key in between.                 *)
(***************************************************************************)
Units == {1, 2}

NoUnit == [pc |-> "idle", op |-> "", key |-> None, new |-> FALSE, outcome |-> ""]

\* whether the committed store has a row for the key of the operation
TicketOps == {"register", "on_channel_create"}

Stored(d, op, key) ==
    IF op \in TicketOps THEN d.tickets[key].exists ELSE d.staff_roles[key] # None

\* Faulty variant of flushed: what a session adds is written to the store.
flushed_through(stored, staged) == staged

\* session.add (layer.py 385-386, 509-510): the new object lives in the
\* session and its transaction; the committed store, which is what every
\* other session reads, is as before.
flushed(stored, staged) == stored

\* session.get and session.add of get_ticket or get_staff_role in unit u
get_or_create(u, op, key) ==
    /\ units[u].pc = "idle"
    /\ op \in TicketOps => key \in plat.live
    /\ LET got == IF op \in TicketOps
                  THEN get_ticket(db.tickets, key, ChanGuild(key), None, None)
                  ELSE get_staff_role(db.staff_roles, key, RoleGuild(key))
           staged == IF op \in TicketOps THEN [db EXCEPT !.tickets = got.tickets]
                     ELSE [db EXCEPT !.staff_roles = got.tbl]
       IN /\ units' = [units EXCEPT ![u] = [pc |-> "staged", op |-> op, key |-> key,
                                           new |-> got.new, outcome |-> ""]]
          /\ db' = flushed(db, staged)
          /\ last' = [Idle EXCEPT !.op = "get_or_create", !.key = key,
                                  !.new = got.new]
    /\ UNCHANGED <<plat, now, toggled, calls, heard>>

\* The calls of ticket_creation between get_ticket and commit (events.py
\* 87-150): pings, overwrites, button stripping, topic edit.  They succeed
\* on a channel that exists; on a deleted channel the platform refuses them.
unit_effects(u) ==
    /\ units[u].pc = "staged"
    /\ units[u].op = "on_channel_create"
    /\ units[u].key \in plat.live
    /\ units' = [units EXCEPT ![u].pc = "ready"]
    /\ last' = [Idle EXCEPT !.op = "unit_effects", !.key = units[u].key]
    /\ UNCHANGED <<db, plat, now, toggled, calls, heard>>

\* One of those calls is refused: the exception leaves the unit of work.
unit_fail(u) ==
    /\ units[u].pc = "staged"
    /\ units[u].op = "on_channel_create"
    /\ units' = [units EXCEPT ![u].pc = "done", ![u].outcome = "HTTPException"]
    /\ db' = rollback(db, db)
    /\ last' = [Idle EXCEPT !.op = "unit_fail", !.key = units[u].key,
                            !.new = units[u].new, !.exc = TRUE,
                            !.sess = unit_calls(FALSE, TRUE),
                            !.reply = "HTTPException"]
    /\ UNCHANGED <<plat, now, toggled, calls, heard>>

\* The end of unit u: register commits a new row and raises for an old one;
\* the toggle deletes an old row and commits.
unit_commit(u) ==
    /\ units[u].pc = IF units[u].op = "on_channel_create" THEN "ready" ELSE "staged"
    /\ LET x == units[u]
           conflict == x.new /\ Stored(db, x.op, x.key)
           rejected == x.op = "register" /\ ~x.new
           committed == ~conflict /\ ~rejected
           staged ==
               IF x.op \in TicketOps
               THEN [db EXCEPT !.guilds = get_guild(@, ChanGuild(x.key)),
                               !.tickets =
                                   IF x.new
                                   THEN get_ticket(@, x.key, ChanGuild(x.key),
                                                   None, None).tickets
                                   ELSE @]
               ELSE [db EXCEPT !.guilds = get_guild(@, RoleGuild(x.key)),
                               !.staff_roles =
                                   IF x.new
                                   THEN get_staff_role(@, x.key, RoleGuild(x.key)).tbl
                                   ELSE delete_role_row(@, x.key)]
       IN /\ db' = persisted(committed, staged, db)
          /\ units' = [units EXCEPT ![u] =
                          [x EXCEPT !.pc = "done",
                                    !.outcome = IF conflict THEN "IntegrityError"
                                                ELSE IF rejected THEN AlreadyTicket
                                                ELSE "committed"]]
          /\ last' = [Idle EXCEPT !.op = "unit_commit", !.key = x.key,
                                  !.new = x.new, !.committed = committed,
                                  !.exc = ~committed,
                                  !.sess = unit_calls(committed, ~committed),
                                  !.reply = IF conflict THEN "IntegrityError"
                                            ELSE IF rejected THEN AlreadyTicket
                                            ELSE "committed"]
    /\ UNCHANGED <<plat, now, toggled, calls, heard>>

\* The coroutine of unit u ended; the next event or command starts a new one.
unit_end(u) ==
    /\ units[u].pc = "done"
    /\ units' = [units EXCEPT ![u] = NoUnit]
    /\ last' = [Idle EXCEPT !.op = "unit_end"]
    /\ UNCHANGED <<db, plat, now, toggled, calls, heard>>

(***************************************************************************)
(* Settings.change_openmsg (settings.py 240-274) and                       *)
(* Settings.change_staffteamname (settings.py 312-344).  An open message   *)
(* is the sequence of its pieces and len counts its characters; a name is  *)
(* one string.  The length is tested before get_connection is entered.     *)
(***************************************************************************)
OpenMessageLimit == 200
StaffTeamNameLimit == 40

RECURSIVE len(_)
len(text) == IF text = <<>> THEN 0 ELSE Len(Head(text)) + len(Tail(text))

\* Faulty variant of too_long: a text of exactly the limit is refused.
too_long_inclusive(n, limit) == n >= limit

\* if len(message) > 200 / if len(name) > 40
too_long(n, limit) == n > limit

change_text(op, field, title, guild_id, text, n, limit) ==
    /\ IF too_long(n, limit)
       THEN /\ db' = db
            /\ last' = [Idle EXCEPT !.op = op, !.g = guild_id,
                                    !.msg = [NoMessage EXCEPT !.content = text],
                                    !.reply = "InvalidParameters"]
       ELSE LET gs == get_guild(db.guilds, guild_id)
                old == gs[guild_id][field]
                staged == [db EXCEPT !.guilds = [gs EXCEPT ![guild_id][field] = text]]
            IN /\ db' = persisted(TRUE, staged, db)
               /\ last' = [Idle EXCEPT !.op = op, !.g = guild_id,
                                       !.msg = [NoMessage EXCEPT !.content = text],
                                       !.sess = unit_calls(TRUE, FALSE),
                                       !.committed = TRUE, !.reply = title,
                                       !.fx = <<Fx("commit", None, None, <<>>),
                                                Fx("followup", None, None,
                                                   <<old, text>>)>>]
    /\ UNCHANGED <<plat, now, toggled, calls, heard, units>>

change_openmsg(guild_id, message) ==
    change_text("change_openmsg", "open_message", "Open Message Changed",
                guild_id, message, len(message), OpenMessageLimit)

change_staffteamname(guild_id, name) ==
    change_text("change_staffteamname", "staff_team_name",
                "Staff Team Name Changed", guild_id, name, Len(name),
                StaffTeamNameLimit)

(***************************************************************************)
(* Ticket type commands (settings.py 470-574).  An optional flag of        *)
(* edit_ticket_type is "None" when the caller left it out, and "True" or   *)
(* "False" otherwise.                                                      *)
(***************************************************************************)
Options == {"None", "True", "False"}

\* Python truth value of a bool | None
truthy(opt) == opt = "True"

\* OnlineConfig.get_ticket_type: the row of the tenant with that prefix,
\* staged from the arguments when there is none.
get_ticket_type(types, name, comping, comaccs, strpbuttns, ignore) ==
    IF \E t \in types : t.prefix = name
    THEN [new |-> FALSE, ticket_type |-> CHOOSE t \in types : t.prefix = name,
          types |-> types]
    ELSE LET row == [prefix |-> name, comping |-> comping, comaccs |-> comaccs,
                     strpbuttns |-> strpbuttns, ignore |-> ignore]
         IN [new |-> TRUE, ticket_type |-> row, types |-> types \cup {row}]

\* Settings.create_ticket_type: creates the type, or deletes the one that
\* has the prefix.
create_ticket_type(guild_id, name, comping, comaccs, strpbuttns, ignore) ==
    /\ LET got == get_ticket_type(db.ticket_types[guild_id], name, comping,
                                  comaccs, strpbuttns, ignore)
           types == IF got.new THEN got.types ELSE got.types \ {got.ticket_type}
           staged == [db EXCEPT !.guilds = get_guild(@, guild_id),
                                !.ticket_types[guild_id] = types]
       IN /\ db' = persisted(TRUE, staged, db)
          /\ last' = [Idle EXCEPT !.op = "create_ticket_type", !.g = guild_id,
                                  !.new = got.new, !.committed = TRUE,
                                  !.sess = unit_calls(TRUE, FALSE),
                                  !.reply = IF got.new THEN "Ticket Type Created"
                                            ELSE "Ticket Type Deleted"]
    /\ UNCHANGED <<plat, now, toggled, calls, heard, units>>

\* not any([comping, comaccs, strpbuttns]) (settings.py 549)
nothing_to_edit(o) ==
    ~(truthy(o.comping) \/ truthy(o.comaccs) \/ truthy(o.strpbuttns))

\* settings.py 561-568: each flag that is not None is assigned
edited(t, o) ==
    [t EXCEPT !.comping = IF o.comping # "None" THEN truthy(o.comping) ELSE @,
              !.comaccs = IF o.comaccs # "None" THEN truthy(o.comaccs) ELSE @,
              !.strpbuttns = IF o.strpbuttns # "None" THEN truthy(o.strpbuttns) ELSE @,
              !.ignore = IF o.ignore # "None" THEN truthy(o.ignore) ELSE @]

\* Settings.edit_ticket_type; o holds the four optional flags.
edit_ticket_type(guild_id, name, o) ==
    /\ IF nothing_to_edit(o)
       THEN /\ db' = db
            /\ last' = [Idle EXCEPT !.op = "edit_ticket_type", !.g = guild_id,
                                    !.ttypes = <<name>>, !.arg = o,
                                    !.reply = "You must specify at least one value to edit."]
       ELSE LET got == get_ticket_type(db.ticket_types[guild_id], name,
                                       FALSE, FALSE, FALSE, FALSE)
                created == [db EXCEPT !.guilds = get_guild(@, guild_id),
                                      !.ticket_types[guild_id] = got.types]
                staged == [created EXCEPT !.ticket_types[guild_id] =
                              (@ \ {got.ticket_type})
                              \cup {edited(got.ticket_type, o)}]
            IN /\ db' = IF got.new THEN rollback(created, db)
                        ELSE persisted(TRUE, staged, db)
               /\ last' = [Idle EXCEPT !.op = "edit_ticket_type", !.g = guild_id,
                                       !.ttypes = <<name>>, !.arg = o,
                                       !.new = got.new, !.exc = got.new,
                                       !.committed = ~got.new,
                                       !.sess = unit_calls(~got.new, got.new),
                                       !.reply = IF got.new
                                                 THEN "Ticket type does not exist."
                                                 ELSE "Ticket Type Edited"]
    /\ UNCHANGED <<plat, now, toggled, calls, heard, units>>

(***************************************************************************)
(* Initial store: no rows.  Initial platform: no channel of the model      *)
(* exists yet.                                                             *)
(***************************************************************************)
EmptyDb ==
    [guilds |-> [g \in Guilds |-> NoGuildRow],
     staff_roles |-> [r \in Roles |-> None],
     observers_roles |-> [r \in Roles |-> None],
     community_roles |-> [r \in Roles |-> None],
     community_pings |-> [r \in Roles |-> None],
     ticket_bots |-> {},
     ticket_types |-> [g \in Guilds |-> {}],
     tickets |-> [c \in Channels |-> NoTicket],
     members |-> [k \in Users \X Guilds |-> NoMember],
     ticket_users |-> {}]

EmptyPlat ==
    [live |-> {}, gone |-> {}, created_at |-> [c \in Channels |-> None],
     topic |-> [c \in Channels |-> NoTopic], threads |-> 0,
     guilds |-> Guilds, members |-> Users \X Guilds, roles |-> Roles, held |-> {},
     sweeping |-> TRUE, notifying |-> TRUE, dms |-> [c \in Channels |-> 0],
     posts |-> {}, events |-> {}, nposts |-> 0, relayed |-> {}]

Init ==
    /\ db = EmptyDb
    /\ plat = EmptyPlat
    /\ now = 0
    /\ last = Idle
    /\ toggled = NoToggles
    /\ calls = [c \in Channels |-> NoCalls]
    /\ heard = [c \in Channels |-> NotHeard]
    /\ units = [u \in Units |-> NoUnit]

(***************************************************************************)
(* The administrative toggle surface.  A role option of a slash command    *)
(* resolves to a role of the invoking guild.                               *)
(***************************************************************************)
ToggleRoles == {11, 21}
ToggleUsers == {1, 2}

NextToggle ==
    \/ \E r \in ToggleRoles : change_staff(r, RoleGuild(r))
    \/ \E r \in ToggleRoles : change_observers(r, RoleGuild(r))
    \/ \E r \in ToggleRoles : change_community_roles(r, RoleGuild(r))
    \/ \E r \in ToggleRoles : change_community_ping_roles(r, RoleGuild(r))
    \/ \E u \in ToggleUsers, g \in Guilds : change_tracked(u, g)

SpecToggle == Init /\ [][NextToggle]_vars

(***************************************************************************)
(* The toggle commands as the store sees them: a command passes the ID it  *)
(* was given and the guild of the interaction, and the store holds nothing *)
(* that ties a role ID to a guild other than the row itself.               *)
(***************************************************************************)
NextIsolation ==
    \/ \E g \in Guilds : change_staff(11, g)
    \/ \E g \in Guilds : change_observers(11, g)
    \/ \E g \in Guilds : change_community_roles(11, g)
    \/ \E g \in Guilds : change_community_ping_roles(11, g)
    \/ \E u \in ToggleUsers, g \in Guilds : change_tracked(u, g)

SpecIsolation == Init /\ [][NextIsolation]_vars

(***************************************************************************)
(* C2. Toggle symmetry: after n invocations in a row of one toggle command *)
(* with the same (key, tenant), the tenant's membership set equals the     *)
(* one the run started from when n is even and differs from it in exactly  *)
(* that key when n is odd; each invocation answers "Added" iff the key was *)
(* absent before it.                                                       *)
(***************************************************************************)
SymDiff(A, B) == (A \ B) \cup (B \ A)

ToggleSymmetry ==
    toggled.n > 0 =>
        LET cur == Membership(db, toggled.kind, toggled.g)
        IN /\ (toggled.n % 2 = 0 => cur = toggled.orig)
           /\ (toggled.n % 2 = 1 => cur = SymDiff(toggled.orig, {toggled.key}))
           /\ (toggled.reply = "Added") = (toggled.key \notin toggled.before)
           /\ (toggled.reply = "Removed") = (toggled.key \in toggled.before)

\* Witness of C2: a key toggled four times in a row, back in its original state.
ToggleSymmetryWitness ==
    /\ toggled.n = 4
    /\ toggled.kind = "staff"
    /\ Membership(db, "staff", toggled.g) = toggled.orig
    /\ toggled.key \in toggled.orig

(***************************************************************************)
(* The ticket life cycle.  The tenants were configured beforehand through  *)
(* the settings commands: guild 1 with the open message "Notes for         *)
(* $channel", user 1 as its Ticket Creator and one of a few configurations *)
(* of integration, observers, penalty/community roles and ticket types;    *)
(* guild 2 with the ignored ticket type "archive".  One channel of the     *)
(* model is followed through its life; the others were deleted earlier.    *)
(***************************************************************************)
TType(prefix, flag, ignore) ==
    [prefix |-> prefix, comping |-> flag, comaccs |-> flag, strpbuttns |-> flag,
     ignore |-> ignore]

TypeSets ==
    { {},
      {TType(PrefixBug, TRUE, FALSE), TType(PrefixBugUrgent, FALSE, TRUE)},
      {TType(PrefixBug, FALSE, TRUE), TType(PrefixBugUrgent, TRUE, FALSE)} }

Configured(integrated, observers, rich, types) ==
    [EmptyDb EXCEPT
        !.guilds = [g \in Guilds |->
            IF g = 1
            THEN [NewGuildRow EXCEPT
                    !.integrated = integrated,
                    !.open_message = <<"Notes for ", "$channel">>,
                    !.helping_block = IF rich THEN 12 ELSE None,
                    !.first_autoclose = IF rich THEN 30 ELSE None,
                    !.strip_buttons = rich]
            ELSE NewGuildRow],
        !.observers_roles = [r \in Roles |-> IF r \in observers THEN 1 ELSE None],
        !.community_roles = [r \in Roles |-> IF rich /\ r = 12 THEN 1 ELSE None],
        !.community_pings = [r \in Roles |-> IF rich /\ r = 11 THEN 1 ELSE None],
        !.ticket_bots = {<<1, 1>>, <<1, 2>>},
        !.ticket_types = [g \in Guilds |->
            IF g = 1 THEN types ELSE {TType(PrefixArchive, TRUE, TRUE)}]]

InitTicket ==
    /\ \E integrated \in BOOLEAN, types \in TypeSets,
          roles \in {<<{}, FALSE>>, <<{11}, FALSE>>, <<{11}, TRUE>>} :
            db = Configured(integrated, roles[1], roles[2], types)
    /\ \E c \in Channels : plat = [EmptyPlat EXCEPT !.gone = Channels \ {c}]
    /\ now = 0
    /\ last = Idle
    /\ toggled = NoToggles
    /\ calls = [c \in Channels |-> NoCalls]
    /\ heard = [c \in Channels |-> NotHeard]
    /\ units = [u \in Units |-> NoUnit]

\* The latest channel_create audit log entries when channel c is created.
OtherChannel(c) == IF c = 101 THEN 102 ELSE 101

AuditLogs(c) ==
    {<<>>}
    \cup {<<[user |-> u, target |-> c]>> : u \in {None, 1, 2}}
    \cup {<<[user |-> 1, target |-> OtherChannel(c)], [user |-> 1, target |-> c]>>}

\* What the platform returns during one run of ticket_creation.
Inputs(g) ==
    {[ttypes |-> o, gone |-> x.gone, history |-> x.history, fail |-> "none"] :
        o \in Orders(db.ticket_types[g]),
        x \in {[gone |-> {}, history |-> <<>>], [gone |-> {12}, history |-> <<1, 3>>]}}

OldThread == ThreadId(50)

NextTicket ==
    \/ \E c \in Channels : \E entries \in AuditLogs(c), inp \in Inputs(ChanGuild(c)) :
          on_channel_create(c, entries, inp)
    \/ \E c \in Channels \ plat.gone : \E ok \in BOOLEAN, inp \in Inputs(ChanGuild(c)) :
          TicketHandler_post(ChanGuild(c), 3, c, ok, inp)
    \/ \E c \in Channels, thread \in {None, OldThread} : register(c, thread)
    \/ \E c \in Channels, thread \in {None, OldThread} : staff_register(c, thread)
    \/ \E c \in Channels : on_channel_delete(c)
    \/ \E c \in Channels : anonymize(c)

SpecTicket == InitTicket /\ [][NextTicket]_vars

(***************************************************************************)
(* The steps of ticket creation that depend on the tenant's settings and   *)
(* on the ticket type.  Guild 1 has the type 'bug' with any combination of *)
(* its flags; channel 101 ('bug-urgent-42') is of that type and channel    *)
(* 102 ('ticket-7') of no stored type.  The guild has a helping-block role *)
(* 12 or none, the community roles 12, or 11 and 12, or none, the          *)
(* community-ping role 11 or none, and strips buttons or not.  Role 12 may *)
(* have been deleted on the platform.                                      *)
(***************************************************************************)
GateType(comping, comaccs, strpbuttns) ==
    [prefix |-> PrefixBug, comping |-> comping, comaccs |-> comaccs,
     strpbuttns |-> strpbuttns, ignore |-> FALSE]

InitGate ==
    /\ \E integrated, comping, comaccs, strpbuttns, strip \in BOOLEAN,
          helping \in {None, 12}, access \in {{}, {12}, {11, 12}},
          pings \in {{}, {11}} :
            db = [EmptyDb EXCEPT
                    !.guilds = [g \in Guilds |->
                        IF g = 1
                        THEN [NewGuildRow EXCEPT !.integrated = integrated,
                                                 !.helping_block = helping,
                                                 !.strip_buttons = strip]
                        ELSE NoGuildRow],
                    !.community_roles = [r \in Roles |->
                                            IF r \in access THEN 1 ELSE None],
                    !.community_pings = [r \in Roles |->
                                            IF r \in pings THEN 1 ELSE None],
                    !.ticket_bots = {<<1, 1>>},
                    !.ticket_types = [g \in Guilds |->
                        IF g = 1 THEN {GateType(comping, comaccs, strpbuttns)}
                        ELSE {}]]
    /\ plat = [EmptyPlat EXCEPT !.gone = {201}]
    /\ now = 0
    /\ last = Idle
    /\ toggled = NoToggles
    /\ calls = [c \in Channels |-> NoCalls]
    /\ heard = [c \in Channels |-> NotHeard]
    /\ units = [u \in Units |-> NoUnit]

NextGate ==
    \/ \E c \in Channels : \E inp \in Inputs(ChanGuild(c)) :
          on_channel_create(c, <<[user |-> 1, target |-> c]>>, inp)
    \/ \E c \in Channels \ plat.gone : \E inp \in Inputs(ChanGuild(c)) :
          TicketHandler_post(ChanGuild(c), 3, c, TRUE, inp)

SpecGate == InitGate /\ [][NextGate]_vars

(***************************************************************************)
(* Repeated creation events.  Guild 1 is integrated or not and has the     *)
(* observer role 11; the event of a channel may be delivered again and the *)
(* API may be called again for it, at a later time, after staff switched   *)
(* the ticket to anonymous.                                                *)
(***************************************************************************)
InitDuplicate ==
    /\ \E integrated, rich \in BOOLEAN : db = Configured(integrated, {11}, rich, {})
    /\ plat = [EmptyPlat EXCEPT !.gone = {102, 201}]
    /\ now = 0
    /\ last = Idle
    /\ toggled = NoToggles
    /\ calls = [c \in Channels |-> NoCalls]
    /\ heard = [c \in Channels |-> NotHeard]
    /\ units = [u \in Units |-> NoUnit]

NextDuplicate ==
    \/ \E inp \in Inputs(1) : on_channel_create(101, <<[user |-> 1, target |-> 101]>>, inp)
    \/ \E inp \in Inputs(1) :
          on_channel_create_again(101, <<[user |-> 1, target |-> 101]>>, inp)
    \/ \E ok \in BOOLEAN, inp \in Inputs(1) : TicketHandler_post(1, 3, 101, ok, inp)
    \/ anonymize(101)
    \/ now < MaxTime /\ Tick

SpecDuplicate == InitDuplicate /\ [][NextDuplicate]_vars

(***************************************************************************)
(* The two text settings.  Guild 1 has a row with settings of its own,     *)
(* guild 2 has none yet.  The texts offered are short, exactly of the      *)
(* limit, and one character longer.                                        *)
(***************************************************************************)
Fifty == "01234567890123456789012345678901234567890123456789"
Forty == "0123456789012345678901234567890123456789"

OpenMessages ==
    { <<"Notes for ", "$channel">>,
      <<Fifty, Fifty, Fifty, Forty, "$channel", "!">>,
      <<Fifty, Fifty, Fifty, Fifty>>,
      <<Fifty, Fifty, Fifty, Fifty, "!">> }

FortyOne == "01234567890123456789012345678901234567890"

StaffTeamNames == {"Helpers", Forty, FortyOne}

InitSettings ==
    /\ db = [EmptyDb EXCEPT
                !.guilds = [g \in Guilds |->
                    IF g = 1 THEN [NewGuildRow EXCEPT !.helping_block = 12,
                                                      !.integrated = TRUE,
                                                      !.staff_team_name = "Support"]
                    ELSE NoGuildRow],
                !.staff_roles = [r \in Roles |-> IF r = 11 THEN 1 ELSE None]]
    /\ plat = EmptyPlat
    /\ now = 0
    /\ last = Idle
    /\ toggled = NoToggles
    /\ calls = [c \in Channels |-> NoCalls]
    /\ heard = [c \in Channels |-> NotHeard]
    /\ units = [u \in Units |-> NoUnit]

NextSettings ==
    \/ \E g \in Guilds, message \in OpenMessages : change_openmsg(g, message)
    \/ \E g \in Guilds, name \in StaffTeamNames : change_staffteamname(g, name)

SpecSettings == InitSettings /\ [][NextSettings]_vars

(***************************************************************************)
(* Ticket types of guild 1: the type 'bug' exists with any flags, the type *)
(* 'archive' is created and deleted.  'bug' is edited with the             *)
(* combinations of given and omitted flags, 'archive' with one flag.       *)
(***************************************************************************)
EditOptions ==
    [comping : Options, comaccs : {"None", "True"}, strpbuttns : Options,
     ignore : Options]

OnlyIgnore ==
    [comping |-> "None", comaccs |-> "None", strpbuttns |-> "None", ignore |-> "True"]

OnlyPing == [OnlyIgnore EXCEPT !.comping = "True", !.ignore = "None"]

InitTypes ==
    /\ \E flag, ignore \in BOOLEAN :
          db = [EmptyDb EXCEPT
                  !.guilds = [g \in Guilds |-> IF g = 1 THEN NewGuildRow
                                               ELSE NoGuildRow],
                  !.ticket_types = [g \in Guilds |->
                      IF g = 1 THEN {TType(PrefixBug, flag, ignore)} ELSE {}]]
    /\ plat = EmptyPlat
    /\ now = 0
    /\ last = Idle
    /\ toggled = NoToggles
    /\ calls = [c \in Channels |-> NoCalls]
    /\ heard = [c \in Channels |-> NotHeard]
    /\ units = [u \in Units |-> NoUnit]

NextTypes ==
    \/ \E o \in EditOptions : edit_ticket_type(1, PrefixBug, o)
    \/ \E o \in {OnlyIgnore, OnlyPing} : edit_ticket_type(1, PrefixArchive, o)
    \/ create_ticket_type(1, PrefixArchive, TRUE, TRUE, TRUE, FALSE)

SpecTypes == InitTypes /\ [][NextTypes]_vars

(***************************************************************************)
(* Messages in a ticket.  Guild 1 is integrated, has staff role 11, the    *)
(* staff team name of the column default and, in half of the runs, an      *)
(* any-response auto-close of 30 minutes.  Channel 102 exists; its ticket  *)
(* is opened through the API for user 3 or registered by hand.             *)
(***************************************************************************)
AnyAutoclose == 30

InitMessage ==
    /\ \E any \in {None, AnyAutoclose} :
          db = [Configured(TRUE, {}, FALSE, {}) EXCEPT
                  !.guilds[1].any_autoclose = any,
                  !.staff_roles = [r \in Roles |-> IF r = 11 THEN 1 ELSE None]]
    /\ plat = [EmptyPlat EXCEPT !.live = {102}, !.gone = {101, 201},
                                !.created_at[102] = 0]
    /\ now = 0
    /\ last = Idle
    /\ toggled = NoToggles
    /\ calls = [c \in Channels |-> NoCalls]
    /\ heard = [c \in Channels |-> NotHeard]
    /\ units = [u \in Units |-> NoUnit]

Hi == <<"h", "i">>
EveryoneHi == <<"@", "e", "v", "e", "r", "y", "o", "n", "e", " ", "h", "i">>
RolePing == <<"<", "@", "&", "1", "1", "0", "0", "0", "0", "0", "0", "0", "0", "0", "0", "0", "0", "0", "0", "0", ">">>
ShortNumber == <<"@", "1", "2", "3">>

\* author 1 holds no staff role, author 2 holds the staff role 11, author 3
\* (for whom the ticket is opened) holds it as well, author 4 is another bot
\* that holds it.
Message(author, bot, roles, content, created_at) ==
    [author |-> author, bot |-> bot, roles |-> roles, content |-> content,
     created_at |-> created_at]

Messages(at) ==
    {Message(1, FALSE, {12}, Hi, at),
     Message(2, FALSE, {11}, EveryoneHi, at),
     Message(2, FALSE, {11}, RolePing, at - 1),
     Message(3, FALSE, {11, 12}, ShortNumber, at),
     Message(4, TRUE, {11}, Hi, at)}

PlainInput == [ttypes |-> <<>>, gone |-> {}, history |-> <<>>, fail |-> "none"]

NextMessage ==
    \/ Tick
    \/ \E m \in Messages(now) : on_message(102, m)
    \/ on_message(DMChannel, Message(1, FALSE, {}, Hi, now))
    \/ ~db.tickets[102].exists /\ TicketHandler_post(1, 3, 102, TRUE, PlainInput)
    \/ ~db.tickets[102].exists /\ register(102, OldThread)
    \/ anonymize(102)

SpecMessage == InitMessage /\ [][NextMessage]_vars

(***************************************************************************)
(* The anonymous relay.  Channel 102 is a ticket of user 1 in guild 1, in  *)
(* anonymous mode or not; user 2 holds the staff role 11 and the bot       *)
(* itself (user 3) holds it in half of the runs.  Users and bots write in  *)
(* the ticket and in a direct message; a send or a delete may raise.       *)
(***************************************************************************)
InitRelay ==
    /\ \E anonymous, staffed \in BOOLEAN :
          /\ db = [Configured(TRUE, {}, FALSE, {}) EXCEPT
                    !.staff_roles = [r \in Roles |-> IF r = 11 THEN 1 ELSE None],
                    !.tickets[102] = [NoTicket EXCEPT
                                         !.exists = TRUE, !.guild_id = 1,
                                         !.user_id = 1, !.date_created = 0,
                                         !.last_response = 0,
                                         !.anonymous = anonymous]]
          /\ plat = [EmptyPlat EXCEPT
                      !.live = {102}, !.gone = {101, 201}, !.created_at[102] = 0,
                      !.held = {<<2, 11>>} \cup (IF staffed THEN {<<BotUser, 11>>}
                                                ELSE {})]
    /\ now = 0
    /\ last = Idle
    /\ toggled = NoToggles
    /\ calls = [c \in Channels |-> NoCalls]
    /\ heard = [c \in Channels |-> NotHeard]
    /\ units = [u \in Units |-> NoUnit]

NextRelay ==
    \/ \E author \in {1, 2} : post_message(102, author, FALSE, EveryoneHi)
    \/ post_message(102, BotUser, TRUE, Hi)
    \/ post_message(DMChannel, 2, FALSE, Hi)
    \/ \E m \in plat.events, fails \in {"none", "send", "delete_message"} :
          message_event(m, fails)

SpecRelay == InitRelay /\ [][NextRelay]_vars

(***************************************************************************)
(* The penalty sweep.  Guild 1 has the support-block role 11 and, in half  *)
(* of the runs, the helping-block role 12; staff sets penalties with       *)
(* usrstatus, time passes, members leave and roles are deleted.            *)
(***************************************************************************)
MaxSweepTime == 3

InitSweep ==
    /\ \E helping \in {None, 12} :
          db = [EmptyDb EXCEPT
                  !.guilds = [g \in Guilds |->
                      IF g = 1 THEN [NewGuildRow EXCEPT !.support_block = 11,
                                                        !.helping_block = helping]
                      ELSE NoGuildRow]]
    /\ plat = EmptyPlat
    /\ now = 0
    /\ last = Idle
    /\ toggled = NoToggles
    /\ calls = [c \in Channels |-> NoCalls]
    /\ heard = [c \in Channels |-> NotHeard]
    /\ units = [u \in Units |-> NoUnit]

NextSweep ==
    \/ now < MaxSweepTime /\ Tick
    \/ \E rehabilitated \in Orders(get_expired_members(db.members, now)) :
          clean_status(rehabilitated)
    \/ \E status \in {1, 2}, minutes \in {0, 1} :
          usrstatus(1, 1, status, minutes,
                    Ascending(RolesOf(db.community_roles, 1)))
    \/ usrstatus(2, 1, 1, 2, Ascending(RolesOf(db.community_roles, 1)))
    \/ usrstatus(2, 1, 0, 0, Ascending(RolesOf(db.community_roles, 1)))
    \/ member_remove(2, 1)
    \/ role_delete(12)
    \/ guild_remove(1)

SpecSweep == InitSweep /\ [][NextSweep]_vars

\* The task loop (routines.py 62, tasks.loop(seconds=spt_clean_usr)) calls
\* clean_status again and again for as long as the loop runs.
SweepTick ==
    \E rehabilitated \in Orders(get_expired_members(db.members, now)) :
        clean_status(rehabilitated)

SpecSweepFair == InitSweep /\ [][NextSweep]_vars /\ WF_vars(SweepTick)

(***************************************************************************)
(* Members who left and join again.  Guild 1 has a row, with or without    *)
(* the support-block role 11 and the helping-block role 12; user 2 left it *)
(* with any Member row that usrstatus, clean_status and the penalty role   *)
(* settings can leave behind.  Guild 2 has no row yet; user 3 joins it.    *)
(***************************************************************************)
MaxJoinTime == 2

MemberRows ==
    {NoMember, NewMember}
    \cup {[exists |-> TRUE, status |-> st, status_till |-> till] :
              st \in {1, 2}, till \in {None, 1, 2}}

InitJoin ==
    /\ \E support \in {None, 11}, helping \in {None, 12}, row \in MemberRows :
          db = [EmptyDb EXCEPT
                  !.guilds = [g \in Guilds |->
                      IF g = 1 THEN [NewGuildRow EXCEPT !.support_block = support,
                                                        !.helping_block = helping]
                      ELSE NoGuildRow],
                  !.members[<<2, 1>>] = row]
    /\ plat = [EmptyPlat EXCEPT !.members = @ \ {<<2, 1>>, <<3, 2>>}]
    /\ now = 0
    /\ last = Idle
    /\ toggled = NoToggles
    /\ calls = [c \in Channels |-> NoCalls]
    /\ heard = [c \in Channels |-> NotHeard]
    /\ units = [u \in Units |-> NoUnit]

NextJoin ==
    \/ now < MaxJoinTime /\ Tick
    \/ on_member_join(2, 1)
    \/ on_member_join(3, 2)
    \/ member_remove(2, 1)
    \/ member_remove(3, 2)
    \/ role_delete(11)
    \/ role_delete(12)

SpecJoin == InitJoin /\ [][NextJoin]_vars

(***************************************************************************)
(* Every way a Member row is written.  User 2 of guild 1 starts with any   *)
(* Member row, the guild with or without each penalty role; the sweep      *)
(* runs, staff sets a status with or without a duration, the user leaves   *)
(* and joins again.                                                        *)
(***************************************************************************)
NextPermanent ==
    \/ now < MaxJoinTime /\ Tick
    \/ \E rehabilitated \in Orders(get_expired_members(db.members, now)) :
          clean_status(rehabilitated)
    \/ \E status \in {0, 1, 2}, minutes \in {0, 1} :
          usrstatus(2, 1, status, minutes, Ascending(RolesOf(db.community_roles, 1)))
    \/ usrstatus(1, 1, 1, 1, Ascending(RolesOf(db.community_roles, 1)))
    \/ on_member_join(2, 1)
    \/ member_remove(2, 1)

SpecPermanent == InitJoin /\ [][NextPermanent]_vars

(***************************************************************************)
(* The two sweeps side by side.  Guild 1 has the support-block role 11 and *)
(* a warn duration of one minute or none; guild 2 warns after 3 minutes.   *)
(* Users 1 and 2 are support-blocked in guild 1 until minute 1.  Channel   *)
(* 101 is the ticket of user 2, channel 102 a ticket of user 1 or of no    *)
(* recorded user, channel 201 the ticket of user 3 in guild 2.  Members    *)
(* leave, the role is deleted, the bot is removed from guild 1.            *)
(***************************************************************************)
MaxNotifyTime == 3

OpenTicket(g, user, at) ==
    [NoTicket EXCEPT !.exists = TRUE, !.guild_id = g, !.user_id = user,
                     !.date_created = at, !.last_response = at]

Blocked(till) == [exists |-> TRUE, status |-> 1, status_till |-> till]

InitNotify ==
    /\ \E warn \in {None, 1}, any \in {None, AnyAutoclose}, user \in {None, 1} :
          db = [EmptyDb EXCEPT
                  !.guilds = [g \in Guilds |->
                      IF g = 1 THEN [NewGuildRow EXCEPT !.support_block = 11,
                                                        !.warn_autoclose = warn,
                                                        !.any_autoclose = any]
                      ELSE [NewGuildRow EXCEPT !.warn_autoclose = 3]],
                  !.tickets = [c \in Channels |->
                      IF c = 101 THEN OpenTicket(1, 2, 0)
                      ELSE IF c = 102 THEN OpenTicket(1, user, 1)
                      ELSE OpenTicket(2, 3, 0)],
                  !.members[<<1, 1>>] = Blocked(1),
                  !.members[<<2, 1>>] = Blocked(1)]
    /\ plat = [EmptyPlat EXCEPT !.live = Channels,
                                !.created_at = [c \in Channels |-> 0],
                                !.held = {<<1, 11>>, <<2, 11>>}]
    /\ now = 0
    /\ last = Idle
    /\ toggled = NoToggles
    /\ calls = [c \in Channels |-> NoCalls]
    /\ heard = [c \in Channels |-> NotHeard]
    /\ units = [u \in Units |-> NoUnit]

NextNotify ==
    \/ now < MaxNotifyTime /\ Tick
    \/ \E tickets \in Orders(get_pending_tickets(db, now)) : notify_users(tickets)
    \/ \E rehabilitated \in Orders(get_expired_members(db.members, now)) :
          clean_status(rehabilitated)
    \/ member_remove(2, 1)
    \/ role_delete(11)
    \/ guild_remove(1)

SpecNotify == InitNotify /\ [][NextNotify]_vars

(***************************************************************************)
(* The warning task with sends that raise.  A failed tick is followed by   *)
(* the loop's retry or, once the loop has ended, by a reload of the cog.   *)
(***************************************************************************)
NextWarn ==
    \/ now < MaxNotifyTime /\ Tick
    \/ \E tickets \in Orders(get_pending_tickets(db, now)) : notify_users(tickets)
    \/ \E tickets \in Orders(get_pending_tickets(db, now)) :
          \E i \in 1..Len(tickets), reconnect \in BOOLEAN :
             notify_users_raising(tickets, i, reconnect)
    \/ Routines_init
    \/ member_remove(2, 1)

SpecWarn == InitNotify /\ [][NextWarn]_vars

(***************************************************************************)
(* Commands guarded by is_staff_check.  Guild 1 has any set of the roles   *)
(* 11 and 12 as staff roles; guild 2 has no row.  The bot belongs to user  *)
(* 1 alone or to a team of users 1 and 2 whose owner is user 1.            *)
(***************************************************************************)
Apps == {[team |-> {}, owner |-> 1], [team |-> {1, 2}, owner |-> 1]}

InitStaff ==
    /\ \E staff \in SUBSET {11, 12} :
          db = [EmptyDb EXCEPT
                  !.guilds = [g \in Guilds |->
                      IF g = 1 THEN NewGuildRow ELSE NoGuildRow],
                  !.staff_roles = [r \in Roles |-> IF r \in staff THEN 1 ELSE None]]
    /\ plat = EmptyPlat
    /\ now = 0
    /\ last = Idle
    /\ toggled = NoToggles
    /\ calls = [c \in Channels |-> NoCalls]
    /\ heard = [c \in Channels |-> NotHeard]
    /\ units = [u \in Units |-> NoUnit]

NextStaff ==
    \/ \E guild \in {None} \cup Guilds, user \in Users, roles \in SUBSET Roles,
          app \in Apps : is_staff(guild, user, roles, app)
    \/ role_delete(11)

SpecStaff == InitStaff /\ [][NextStaff]_vars

(***************************************************************************)
(* Concurrent units of work on channel 101 and on the roles 11 and 12 of   *)
(* guild 1; the channel may be deleted while they run.                     *)
(***************************************************************************)
InitRace ==
    /\ db = [EmptyDb EXCEPT !.guilds = [g \in Guilds |-> NewGuildRow]]
    /\ plat = [EmptyPlat EXCEPT !.live = {101}, !.created_at[101] = 0]
    /\ now = 0
    /\ last = Idle
    /\ toggled = NoToggles
    /\ calls = [c \in Channels |-> NoCalls]
    /\ heard = [c \in Channels |-> NotHeard]
    /\ units = [u \in Units |-> NoUnit]

NextRace ==
    \/ \E u \in Units, op \in TicketOps : get_or_create(u, op, 101)
    \/ \E u \in Units, role \in {11, 12} : get_or_create(u, "change_staff", role)
    \/ \E u \in Units : unit_effects(u)
    \/ \E u \in Units : unit_fail(u)
    \/ \E u \in Units : unit_commit(u)
    \/ \E u \in Units : unit_end(u)
    \/ on_channel_delete(101)

SpecRace == InitRace /\ [][NextRace]_vars

(***************************************************************************)
(* Units of work of both generations of the bot, followed for the calls    *)
(* they make on their session.  Guild 1 is not integrated and has the      *)
(* ticket types bug (ignored when urgent); one channel is followed.         *)
(***************************************************************************)
InitSession ==
    /\ \E integrated \in BOOLEAN :
          db = Configured(integrated, {}, FALSE,
                          {TType(PrefixBug, TRUE, FALSE),
                           TType(PrefixBugUrgent, FALSE, TRUE)})
    /\ plat = [EmptyPlat EXCEPT !.gone = {201}]
    /\ now = 0
    /\ last = Idle
    /\ toggled = NoToggles
    /\ calls = [c \in Channels |-> NoCalls]
    /\ heard = [c \in Channels |-> NotHeard]
    /\ units = [u \in Units |-> NoUnit]

\* Runs of ticket_creation in which a platform call is refused.
FailingInputs(g) ==
    {[inp EXCEPT !.fail = f] : inp \in Inputs(g), f \in {"create_thread", "edit_topic"}}

NextSession ==
    \/ \E c \in Channels : \E entries \in AuditLogs(c),
                             inp \in Inputs(ChanGuild(c)) \cup FailingInputs(ChanGuild(c)) :
          on_channel_create(c, entries, inp)
    \/ \E c \in Channels, thread \in {None, OldThread} : register(c, thread)
    \/ \E c \in Channels, thread \in {None, OldThread} : staff_register(c, thread)
    \/ \E c \in Channels : on_channel_delete(c)
    \/ \E c \in Channels : anonymize(c)
    \/ \E fails \in BOOLEAN : ticket_plus_change_tracked(1, 1, fails)

SpecSession == InitSession /\ [][NextSession]_vars

(***************************************************************************)
(* Helpers of the properties.                                              *)
(***************************************************************************)
Called(k) == \E i \in 1..Len(last.fx) : last.fx[i].k = k
CountOf(k) == Cardinality({i \in 1..Len(last.fx) : last.fx[i].k = k})
CreationOps == {"on_channel_create", "TicketHandler.post"}
RegisterOps == {"register", "staff_register"}

(***************************************************************************)
(* C1. get_ticket is idempotent per channel id: the first call for a       *)
(* channel answers wasCreated = true, every later call (whatever guild,    *)
(* user and staff thread it passes) answers false and returns the row with *)
(* the guild, user and staff thread of the first call, and those fields of *)
(* the stored row stay as the first call stored them while the channel     *)
(* exists.                                                                 *)
(***************************************************************************)
GetTicketIdempotent ==
    /\ \A c \in plat.live :
          calls[c].n >= 1 =>
              /\ db.tickets[c].exists
              /\ db.tickets[c].guild_id = calls[c].guild_id
              /\ db.tickets[c].user_id = calls[c].user_id
              /\ db.tickets[c].staff_note_thread = calls[c].staff_note
    /\ (last.op \in CreationOps \cup RegisterOps /\ Called("get_ticket")) =>
          /\ last.new = (calls[last.ch].n = 1)
          /\ last.got.exists
          /\ last.got.guild_id = calls[last.ch].guild_id
          /\ last.got.user_id = calls[last.ch].user_id
          /\ last.got.staff_note_thread = calls[last.ch].staff_note

\* Witness of C1: a second call with another user and another staff thread
\* answered false and returned the row of the first call.
GetTicketIdempotentWitness ==
    /\ last.op = "TicketHandler.post"
    /\ Called("get_ticket")
    /\ calls[last.ch].n = 2
    /\ ~last.new
    /\ last.key = 3
    /\ last.got.user_id # 3
    /\ db.tickets[last.ch].user_id = calls[last.ch].user_id

(***************************************************************************)
(* C3. Ticket-type precedence: when several TicketType prefixes of the     *)
(* tenant match the start of the channel name, ticket creation selects the *)
(* type with the longest matching prefix, in whatever order                *)
(* get_ticket_types returned the rows.                                     *)
(***************************************************************************)
SeqRange(q) == {q[i] : i \in 1..Len(q)}

Matching(ttypes, name) == {t \in SeqRange(ttypes) : startswith(name, t.prefix)}

LongestPrefixWins ==
    (last.op \in CreationOps /\ last.ran) =>
        LET m == Matching(last.ttypes, ChanName(last.ch))
        IN m # {} =>
              /\ last.ticket_type \in m
              /\ \A t \in m : Len(t.prefix) <= Len(last.ticket_type.prefix)

(***************************************************************************)
(* C8. Ticket happy path: for a channel created by a registered Ticket     *)
(* Creator in a non-integrated tenant whose selected type is not ignored,  *)
(* the handler (1) creates the staff notes thread, (2) sends the open      *)
(* message with $channel substituted into that thread, (3) stages the      *)
(* Ticket row with staff_note_thread = the new thread, (4) if the tenant   *)
(* has observer roles, sends their mentions into the thread and deletes    *)
(* that message, and commits last, exactly once; afterwards the committed  *)
(* Ticket row of the channel has staff_note_thread = the created thread.   *)
(***************************************************************************)
HappyPathOrder ==
    (last.op = "on_channel_create" /\ last.ran /\ ~last.ticket_type.ignore) =>
        LET fx == last.fx
            thr == fx[1].arg
            observers == RolesOf(db.observers_roles, last.g)
        IN /\ Len(fx) >= 5
           /\ fx[1].k = "create_thread" /\ fx[1].ch = last.ch
           /\ thr \notin Channels /\ thr # None
           /\ fx[2].k = "send" /\ fx[2].ch = thr
           /\ "$channel" \notin SeqRange(fx[2].txt)
           /\ (last.g = 1 => fx[2].txt = <<"Notes for ", Mention(last.ch)>>)
           /\ fx[3].k = "get_ticket" /\ fx[3].ch = last.ch /\ fx[3].arg = thr
           /\ (observers # {} =>
                 /\ fx[4].k = "send" /\ fx[4].ch = thr
                 /\ \A r \in observers : RoleMention(r) \in SeqRange(fx[4].txt)
                 /\ fx[5].k = "delete_message" /\ fx[5].ch = thr
                 /\ fx[5].txt = fx[4].txt)
           /\ (observers = {} =>
                 \A i \in 1..Len(fx) : ~(fx[i].k = "send" /\ fx[i].ch = thr /\ i # 2))
           /\ fx[Len(fx)].k = "commit"
           /\ CountOf("commit") = 1
           /\ CountOf("create_thread") = 1
           /\ last.committed
           /\ db.tickets[last.ch].exists
           /\ db.tickets[last.ch].staff_note_thread = thr
           /\ db.tickets[last.ch].guild_id = last.g

\* Witness of C8: the scenario of the specification, channel ticket-7 with
\* observer role 11.
HappyPathWitness ==
    /\ last.op = "on_channel_create"
    /\ last.ch = 102
    /\ last.committed
    /\ RolesOf(db.observers_roles, 1) = {11}
    /\ Len(last.fx) >= 5
    /\ last.fx[2].txt = <<"Notes for ", "<#102>">>
    /\ last.fx[4].txt = <<"<@&11>">>
    /\ last.fx[5].k = "delete_message"
    /\ db.tickets[102].staff_note_thread = last.fx[1].arg

(***************************************************************************)
(* C9. Ignored ticket type: when the TicketType selected for a newly       *)
(* created channel has ignore = true, the channel-created handler creates  *)
(* no Ticket row and no thread, sends no message, sets no permission       *)
(* overwrite, does not edit the topic and commits nothing.                 *)
(***************************************************************************)
IgnoredTypeNoEffect ==
    [][(last'.op = "on_channel_create" /\ last'.ran /\ last'.ticket_type.ignore) =>
          /\ last'.fx = <<>>
          /\ ~last'.committed
          /\ db' = db
          /\ ~db'.tickets[last'.ch].exists
          /\ plat'.threads = plat.threads
          /\ plat'.topic = plat.topic]_vars

\* Witness of C9: channel archive-1 created by the Ticket Creator of guild 2.
IgnoredTypeWitness ==
    /\ last.op = "on_channel_create"
    /\ last.ch = 201
    /\ last.ran
    /\ last.ticket_type.prefix = PrefixArchive
    /\ last.ticket_type.ignore
    /\ ~db.tickets[201].exists

(***************************************************************************)
(* C10. Register on an already tracked channel is rejected with "already a *)
(* ticket" and performs no mutation: the Ticket row is unchanged, nothing  *)
(* is committed, no thread is created and no message is sent.              *)
(***************************************************************************)
RegisterRejectNoMutation ==
    (last.op \in RegisterOps /\ last.pre.exists) =>
        /\ last.reply = AlreadyTicket
        /\ ~last.committed
        /\ db.tickets[last.ch] = last.pre
        /\ ~Called("create_thread")
        /\ ~Called("send")

(***************************************************************************)
(* Helpers of the message properties.                                      *)
(***************************************************************************)
Tracked(c) == c \in Channels /\ db.tickets[c].exists

\* the original was re-posted in its channel and then deleted
Relayed ==
    \E i \in 1..(Len(last.fx) - 1) :
        /\ last.fx[i].k = "send" /\ last.fx[i].ch = last.ch
        /\ last.fx[i + 1].k = "delete_message" /\ last.fx[i + 1].ch = last.ch
        /\ last.fx[i + 1].txt = last.msg.content

RelayCondition ==
    /\ db.tickets[last.ch].anonymous
    /\ last.msg.author # db.tickets[last.ch].user_id
    /\ last.msg.roles \cap RolesOf(db.staff_roles, ChanGuild(last.ch)) # {}

StripZWSP(s) == SelectSeq(s, LAMBDA ch : ch # ZWSP)

\* the re-posted text: the staff team name in bold, then the content with
\* U+200B after every @ that would start a mention and nothing else changed
EscapedRepost(txt, content) ==
    /\ Len(txt) >= 3
    /\ SubSeq(txt, 1, 3) = <<"**", db.guilds[ChanGuild(last.ch)].staff_team_name, ":** ">>
    /\ LET body == SubSeq(txt, 4, Len(txt))
       IN /\ StripZWSP(body) = content
          /\ \A i \in 1..Len(body) :
                /\ body[i] = "@" => ~MentionAt(SubSeq(body, i + 1, Len(body)))
                /\ body[i] = ZWSP =>
                      /\ i > 1 /\ body[i - 1] = "@"
                      /\ MentionAt(SubSeq(body, i + 1, Len(body)))

(***************************************************************************)
(* C4 as stated: in a tracked ticket channel the relay happens if and only *)
(* if the ticket is anonymous, the author is not the ticket's user and the *)
(* author holds a configured staff role; otherwise the message is neither  *)
(* deleted nor re-posted.                                                  *)
(***************************************************************************)
AnonRelayIff ==
    (last.op = "on_message" /\ Tracked(last.ch)) =>
        /\ Relayed <=> RelayCondition
        /\ ~RelayCondition => ~Called("send") /\ ~Called("delete_message")

(***************************************************************************)
(* C4. Anonymous relay: on a message in a tracked ticket channel whose     *)
(* author is not a bot account, the re-post of the mention-escaped content *)
(* under the staff team name followed by the deletion of the original      *)
(* happens if and only if the ticket is anonymous, the author is not the   *)
(* ticket's user and the author holds a configured staff role; in every    *)
(* other case, and for every message of a bot account, the message is      *)
(* neither deleted nor re-posted.                                          *)
(***************************************************************************)
AnonRelayIffNotBot ==
    (last.op = "on_message" /\ Tracked(last.ch)) =>
        /\ Relayed <=> (~last.msg.bot /\ RelayCondition)
        /\ Relayed => /\ last.fx[1].k = "send"
                      /\ EscapedRepost(last.fx[1].txt, last.msg.content)
                      /\ CountOf("send") = 1 /\ CountOf("delete_message") = 1
        /\ ~Relayed => ~Called("send") /\ ~Called("delete_message")

\* Witness of C4: "@everyone hi" of staff author 2 relayed in an anonymous
\* ticket as literal text.
AnonRelayWitness ==
    /\ last.op = "on_message"
    /\ Tracked(last.ch)
    /\ db.tickets[last.ch].anonymous
    /\ last.msg.author = 2
    /\ last.msg.content = EveryoneHi
    /\ Len(last.fx) = 2
    /\ last.fx[1].txt = <<"**", "Staff Team", ":** ", "@", ZWSP>> \o <<"e", "v", "e", "r", "y", "o", "n", "e", " ", "h", "i">>
    /\ last.fx[2].k = "delete_message"

(***************************************************************************)
(* C5. Auto-close refresh: for a ticket whose tenant has an any-response   *)
(* auto-close duration, a message handled at least 5 minutes after the     *)
(* ticket's last recorded activity causes exactly one topic edit whose     *)
(* deadline is the message's timestamp plus the duration, and advances     *)
(* the committed last-activity timestamp to the time of handling.          *)
(***************************************************************************)
AutocloseRefresh ==
    (/\ last.op = "on_message" /\ ~last.msg.bot /\ last.pre.exists
     /\ db.guilds[last.g].any_autoclose # None
     /\ now - last.pre.last_response >= 5) =>
        /\ CountOf("edit_topic") = 1
        /\ \E i \in 1..Len(last.fx) :
              /\ last.fx[i].k = "edit_topic"
              /\ last.fx[i].arg = last.msg.created_at + db.guilds[last.g].any_autoclose
        /\ last.committed
        /\ db.tickets[last.ch].last_response = now

(***************************************************************************)
(* C6. Auto-close throttle: a message handled less than 5 minutes after    *)
(* the ticket's last recorded activity causes no topic edit, commits       *)
(* nothing and leaves the Ticket rows, the last-activity timestamp         *)
(* included, as they were; of two messages handled in one ticket at most 1 *)
(* minute apart, at most one edits the topic.                              *)
(***************************************************************************)
AutocloseThrottled ==
    /\ [](\A c \in Channels :
            (heard[c].n = 2 /\ heard[c].at - heard[c].prev_at <= 1) =>
                ~(heard[c].edited /\ heard[c].prev_edited))
    /\ [][(/\ last'.op = "on_message" /\ last'.pre.exists
           /\ now' - last'.pre.last_response < 5) =>
              /\ plat'.topic = plat.topic
              /\ db'.tickets = db.tickets
              /\ ~last'.committed
              /\ \A i \in 1..Len(last'.fx) : last'.fx[i].k # "edit_topic"]_vars

\* Witness of C6: with an auto-close duration configured, two messages
\* handled one minute apart in a ticket, the second one 1 to 4 minutes after
\* the last recorded activity, and no topic edit by it.
AutocloseThrottledWitness ==
    /\ last.op = "on_message"
    /\ last.pre.exists
    /\ db.guilds[last.g].any_autoclose # None
    /\ now - last.pre.last_response \in 1..4
    /\ heard[last.ch].n = 2
    /\ heard[last.ch].at - heard[last.ch].prev_at = 1
    /\ ~heard[last.ch].edited
    /\ ~Called("edit_topic")
    /\ db.tickets[last.ch].last_response = last.pre.last_response

(***************************************************************************)
(* Helpers of the sweep properties.                                        *)
(***************************************************************************)
\* how many remove_roles calls a tick issued for member k
RemovalsFor(fx, k) ==
    Cardinality({i \in 1..Len(fx) :
        fx[i].k = "remove_roles" /\ fx[i].arg = k[1] /\ fx[i].ch = k[2]})

Resolves(k) == k[2] \in plat.guilds /\ k \in plat.members

\* a configured penalty role of guild g that is no longer a role of the guild
VanishedPenaltyRole(g) ==
    \E role \in {db.guilds[g].helping_block, db.guilds[g].support_block} \ {None} :
        role \notin plat.roles

UnitOps ==
    {"on_channel_create", "register", "staff_register", "on_channel_delete",
     "anonymize", "ticket_plus.change_tracked"}

Closes(calls_made) ==
    Cardinality({i \in 1..Len(calls_made) : calls_made[i] = "close"})

ScopedSession ==
    last.op \in UnitOps =>
        /\ Len(last.sess) >= 1
        /\ last.sess[Len(last.sess)] = "close"
        /\ Closes(last.sess) = 1
        /\ last.exc => /\ Len(last.sess) >= 2
                       /\ last.sess[Len(last.sess) - 1] = "rollback"
                       /\ ~last.committed
        /\ ~last.exc => \A i \in 1..Len(last.sess) : last.sess[i] # "rollback"

\* A command refused by an exception raised inside the unit of work.
ScopedSessionWitness ==
    /\ last.op = "register"
    /\ last.exc
    /\ last.reply = AlreadyTicket
    /\ last.sess = <<"rollback", "close">>

(***************************************************************************)
(* C12. No implicit commit: a unit of work that ends without commit()      *)
(* leaves the persisted store exactly as it was, the Guild and Member rows *)
(* staged by get_guild and get_member included.                            *)
(***************************************************************************)
NoImplicitCommit == [][~last'.committed => db' = db]_vars

\* A join that staged a Guild row and a Member row and did not commit.
NoImplicitCommitWitness ==
    /\ last.op = "on_member_join"
    /\ last.new
    /\ ~last.committed
    /\ last.sess = <<"close">>
    /\ ~db.guilds[last.g].exists
    /\ db.members[<<last.key, last.g>>] = NoMember
    /\ <<last.key, last.g>> \in plat.members

(***************************************************************************)
(* C15. Member joined with an active penalty: when the stored status is    *)
(* not none, the expiry is null or in the future and the penalty role of   *)
(* that status is configured, the handler issues the add-role call for     *)
(* that role (support-block for status 1, helping-block for status 2,      *)
(* never the other one) and leaves status and expiry unchanged.            *)
(***************************************************************************)
BlockOf(k) ==
    IF db.members[k].status = 1 THEN db.guilds[k[2]].support_block
    ELSE db.guilds[k[2]].helping_block

ActivePenalty(k) ==
    /\ db.members[k].exists
    /\ db.members[k].status \in {1, 2}
    /\ db.members[k].status_till = None \/ db.members[k].status_till > now
    /\ BlockOf(k) # None

Joined(k) == last'.op = "on_member_join" /\ k = <<last'.key, last'.g>>

Reapplied(k) ==
    /\ last'.fx = <<Fx("add_roles", k[2], k[1], <<BlockOf(k)>>)>>
    /\ plat'.held = plat.held \cup {<<k[1], BlockOf(k)>>}
    /\ db'.members[k] = db.members[k]
    /\ ~last'.committed

\* As claimed: the configured role is added whenever the penalty is active.
StickyPenalty ==
    [][\A k \in Users \X Guilds : Joined(k) /\ ActivePenalty(k) => Reapplied(k)]_vars

\* As the code has it: the role is added when the configured id resolves to
\* a role of the guild; when it does not, no call is made and the penalty
\* stays as it is.
StickyPenaltyResolved ==
    [][\A k \in Users \X Guilds :
          Joined(k) /\ ActivePenalty(k) =>
              IF BlockOf(k) \in plat.roles /\ RoleGuild(BlockOf(k)) = k[2]
              THEN Reapplied(k)
              ELSE /\ last'.fx = <<>>
                   /\ plat'.held = plat.held
                   /\ db'.members[k] = db.members[k]
                   /\ ~last'.committed]_vars

\* A helping-blocked member without expiry joins and is given role 12 only.
StickyPenaltyWitness ==
    /\ last.op = "on_member_join"
    /\ last.pre.status = 2
    /\ last.pre.status_till = None
    /\ last.fx = <<Fx("add_roles", 1, 2, <<12>>)>>
    /\ <<2, 12>> \in plat.held
    /\ <<2, 11>> \notin plat.held
    /\ db.guilds[1].support_block = 11
    /\ db.members[<<2, 1>>] = last.pre

(***************************************************************************)
(* C16. Member joined with a lapsed penalty: when the stored status is not *)
(* none and either the expiry has passed or the penalty role of that       *)
(* status is not configured, the handler stores status none and a null     *)
(* expiry, commits, and adds no role.                                      *)
(***************************************************************************)
LapsedPenalty(k) ==
    /\ db.members[k].exists
    /\ db.members[k].status \in {1, 2}
    /\ \/ db.members[k].status_till # None /\ db.members[k].status_till <= now
       \/ BlockOf(k) = None

LapsedPardoned ==
    [][\A k \in Users \X Guilds :
          Joined(k) /\ LapsedPenalty(k) =>
              /\ db'.members[k] = NewMember
              /\ db' = [db EXCEPT !.members[k] = NewMember]
              /\ last'.committed
              /\ last'.fx = <<Fx("commit", None, None, <<>>)>>
              /\ plat'.held = plat.held]_vars

\* A support-blocked member whose penalty ran out, with the role still
\* configured and present, joins and is pardoned.
LapsedPardonedWitness ==
    /\ last.op = "on_member_join"
    /\ last.pre.status = 1
    /\ last.pre.status_till # None
    /\ last.pre.status_till <= now
    /\ db.guilds[1].support_block = 11
    /\ 11 \in plat.roles
    /\ last.committed
    /\ db.members[<<2, 1>>] = NewMember
    /\ plat.held = {}

(***************************************************************************)
(* C13. Channel-created guard: when the tenant is integrated, or none of   *)
(* the audit-log entries read names this channel as target with a          *)
(* registered Ticket Creator as actor, the handler runs no part of the     *)
(* workflow: no Ticket row, no thread, no message, no overwrite, no topic  *)
(* edit, no commit.                                                        *)
(***************************************************************************)
ByTicketCreator(entries, c, g) ==
    \E i \in 1..Len(entries) :
        /\ entries[i].user # None
        /\ entries[i].target = c
        /\ <<entries[i].user, g>> \in db.ticket_bots

CreatedGuard ==
    [][\A c \in Channels :
          /\ last'.op = "on_channel_create"
          /\ last'.ch = c
          /\ \/ db.guilds[ChanGuild(c)].integrated
             \/ ~ByTicketCreator(last'.entries, c, ChanGuild(c))
          => /\ last'.fx = <<>>
             /\ ~last'.ran
             /\ ~last'.committed
             /\ db' = db
             /\ plat' = [plat EXCEPT !.live = @ \cup {c}, !.created_at[c] = now]
             /\ calls' = calls]_vars

\* A channel created by an account that is not a Ticket Creator, in a tenant
\* that is not integrated.
CreatedGuardWitness ==
    /\ last.op = "on_channel_create"
    /\ ~db.guilds[last.g].integrated
    /\ last.entries = <<[user |-> 2, target |-> last.ch]>>
    /\ <<2, last.g>> \notin db.ticket_bots
    /\ last.fx = <<>>
    /\ ~db.tickets[last.ch].exists
    /\ last.ch \in plat.live

(***************************************************************************)
(* C14. Channel deleted: when a Ticket row exists for the channel the      *)
(* handler deletes exactly that row and commits, every other Ticket row    *)
(* and the tenant configuration stay as they were and no platform call is  *)
(* made; when no row exists nothing is changed or committed.               *)
(***************************************************************************)
DeletedExactlyThat ==
    [][\A c \in Channels :
          last'.op = "on_channel_delete" /\ last'.ch = c =>
              /\ plat' = [plat EXCEPT !.live = @ \ {c}, !.gone = @ \cup {c}]
              /\ IF db.tickets[c].exists
                 THEN /\ db' = [db EXCEPT !.tickets[c] = NoTicket]
                      /\ last'.committed
                      /\ last'.fx = <<Fx("delete", c, None, <<>>),
                                      Fx("commit", c, None, <<>>)>>
                 ELSE /\ db' = db
                      /\ ~last'.committed
                      /\ last'.fx = <<>>]_vars

\* The ticket of one channel is deleted while the ticket of another stays.
DeletedExactlyThatWitness ==
    /\ last.op = "on_channel_delete"
    /\ last.pre.exists
    /\ last.committed
    /\ ~db.tickets[last.ch].exists
    /\ \E c \in Channels \ {last.ch} : db.tickets[c].exists

(***************************************************************************)
(* C17. Stale-ticket sweep: a notify_users tick processes exactly the      *)
(* Tickets whose tenant has a warn duration, whose notified flag is false  *)
(* and whose last activity plus the warn duration is not after now.  After *)
(* the tick, which commits, each of them has notified = true, nothing else *)
(* in the store has changed, and one warning was sent for exactly those of *)
(* them whose originating user is recorded and resolves in a guild that    *)
(* resolves.                                                               *)
(***************************************************************************)
StalePending(c) ==
    /\ db.tickets[c].exists
    /\ db.guilds[db.tickets[c].guild_id].exists
    /\ db.guilds[db.tickets[c].guild_id].warn_autoclose # None
    /\ ~db.tickets[c].notified
    /\ db.tickets[c].last_response
          + db.guilds[db.tickets[c].guild_id].warn_autoclose <= now

Warnable(c) ==
    /\ db.tickets[c].user_id # None
    /\ db.tickets[c].guild_id \in plat.guilds
    /\ <<db.tickets[c].user_id, db.tickets[c].guild_id>> \in plat.members

SendsFor(fx, c) ==
    {i \in 1..Len(fx) : fx[i].k = "send" /\ fx[i].ch = c}

Warned(fx, c) ==
    /\ Cardinality(SendsFor(fx, c)) = 1
    /\ \A i \in SendsFor(fx, c) : fx[i].arg = db.tickets[c].user_id

StaleSelection ==
    [][last'.op = "notify_users" =>
          /\ last'.committed
          /\ db' = [db EXCEPT !.tickets = [c \in Channels |->
                        IF StalePending(c) THEN [db.tickets[c] EXCEPT !.notified = TRUE]
                        ELSE db.tickets[c]]]
          /\ \A c \in Channels :
                IF StalePending(c) /\ Warnable(c) THEN Warned(last'.fx, c)
                ELSE SendsFor(last'.fx, c) = {}]_vars

\* A tick that warned the user of one ticket, marked a ticket without a
\* recorded user and left a ticket that is not stale yet.
StaleSelectionWitness ==
    /\ last.op = "notify_users"
    /\ SendsFor(last.fx, 101) # {}
    /\ db.tickets[102].user_id = None
    /\ db.tickets[102].notified
    /\ SendsFor(last.fx, 102) = {}
    /\ ~db.tickets[201].notified
    /\ db.guilds[1].any_autoclose = AnyAutoclose

(***************************************************************************)
(* C18 as stated: in both sweeps, when the guild or the member of one      *)
(* fetched entity does not resolve, only that entity is skipped, every     *)
(* other entity fetched in the tick is processed and the tick commits.     *)
(***************************************************************************)
ExpiredMembers ==
    {k \in DOMAIN db.members :
        /\ db.members[k].exists
        /\ db.members[k].status_till # None
        /\ db.members[k].status_till <= now}

StaleTickets == {c \in Channels : StalePending(c)}

LostUser(c) == db.tickets[c].user_id # None /\ ~Warnable(c)

SweptAroundSkips ==
    /\ last'.committed
    /\ \A k \in ExpiredMembers :
          IF Resolves(k)
          THEN /\ db'.members[k] = NewMember
               /\ RemovalsFor(last'.fx, k) = 1
          ELSE /\ db'.members[k] = db.members[k]
               /\ RemovalsFor(last'.fx, k) = 0

WarnedAroundSkips ==
    /\ last'.committed
    /\ \A c \in StaleTickets :
          /\ db'.tickets[c].notified
          /\ IF Warnable(c) THEN Warned(last'.fx, c)
             ELSE SendsFor(last'.fx, c) = {}

BotOwner(app, user) == user = app.owner \/ user \in app.team

StaffOrOwner ==
    [][last'.op = "is_staff" =>
          /\ last'.reply = "allowed" <=>
                /\ last'.g # None
                /\ \/ BotOwner(last'.pre, last'.key)
                   \/ last'.msg.roles \cap RolesOf(db.staff_roles, last'.g) # {}
          /\ last'.reply # "allowed" =>
                last'.reply \in {"CheckFailure", "TicketsCheckFailure"}
          /\ db' = db]_vars

(***************************************************************************)
(* C20. Atomic get-or-create: two units of work in flight with their own   *)
(* sessions never both find the same key absent and both stage an insert   *)
(* for it, and no unit fails at commit because of the other.               *)
(***************************************************************************)
AtomicGetOrCreate ==
    /\ \A u, v \in Units :
          (/\ u # v
           /\ units[u].pc = "staged" /\ units[v].pc = "staged"
           /\ units[u].op = units[v].op /\ units[u].key = units[v].key)
          => ~(units[u].new /\ units[v].new)
    /\ \A u \in Units : units[u].outcome # "IntegrityError"

(***************************************************************************)
(* C21. Dispatcher isolation: when a handler raises, its session is rolled *)
(* back and closed and nothing it staged is persisted; the events that     *)
(* follow are not blocked (the handler of every live channel can run) and  *)
(* each runs in a session of its own, which commits what it stages.        *)
(***************************************************************************)
DispatcherIsolation ==
    /\ [](last.exc => \A c \in plat.live :
                          /\ ENABLED on_channel_delete(c)
                          /\ ENABLED anonymize(c))
    /\ [][/\ last'.exc =>
               /\ db' = db
               /\ Len(last'.sess) = 2
               /\ last'.sess = <<"rollback", "close">>
          /\ (last.exc /\ last'.op \in UnitOps) =>
               /\ Closes(last'.sess) = 1
               /\ last'.committed <=> last'.sess = <<"commit", "close">>
               /\ last'.committed => db' # db]_vars

\* The creation workflow was refused the topic edit after it had created the
\* thread and staged the Ticket row: the row is not in the store.
DispatcherIsolationWitness ==
    /\ last.op = "on_channel_create"
    /\ last.exc
    /\ last.reply = "HTTPException"
    /\ Called("get_ticket")
    /\ ~Called("commit")
    /\ plat.threads > 0
    /\ ~db.tickets[last.ch].exists
    /\ last.sess = <<"rollback", "close">>

(***************************************************************************)
(* C22. Commit visibility in ticket creation: the Ticket row staged by a   *)
(* channel-created handler is in no other session's view (fetch_ticket of  *)
(* a concurrent channel-deleted handler finds none) until the handler's    *)
(* commit, which comes after its platform calls; a Ticket row appears in   *)
(* the store only by a commit, and when a step fails before the commit the *)
(* handler persists no row.                                                *)
(***************************************************************************)
Creating(u, c) ==
    /\ units[u].op = "on_channel_create"
    /\ units[u].key = c
    /\ units[u].pc \in {"staged", "ready"}
    /\ units[u].new

CommitVisibility ==
    [][/\ last'.op \in {"get_or_create", "unit_effects", "unit_fail"} => db' = db
       /\ \A c \in Channels :
             /\ (~db.tickets[c].exists /\ db'.tickets[c].exists) =>
                    /\ last'.op = "unit_commit"
                    /\ last'.committed
                    /\ \E u \in Units :
                          /\ units[u].key = c
                          /\ units[u].op = "on_channel_create" => units[u].pc = "ready"
                          /\ units'[u].outcome = "committed"
             /\ (last'.op = "on_channel_delete" /\ last'.ch = c
                 /\ ~db.tickets[c].exists /\ \E u \in Units : Creating(u, c)) =>
                    /\ ~last'.pre.exists
                    /\ ~last'.committed
                    /\ db' = db]_vars

\* The channel was deleted while its creation workflow held the staged row:
\* the channel-deleted handler found no ticket.
CommitVisibilityWitness ==
    /\ last.op = "on_channel_delete"
    /\ ~last.pre.exists
    /\ \E u \in Units : Creating(u, last.ch)
    /\ ~db.tickets[last.ch].exists

(***************************************************************************)
(* C23. Eventual penalty expiry: with the sweep scheduled fairly, every    *)
(* Member row whose status expiry has passed is eventually persisted with  *)
(* status none and expiry null.  Stated for the members the sweep does not *)
(* skip (guild and platform member resolve) and up to staff giving the     *)
(* member a new status in the meantime.                                    *)
(***************************************************************************)
ExpiryPassed(k) ==
    /\ db.members[k].exists
    /\ db.members[k].status_till # None
    /\ db.members[k].status_till <= now
    /\ get_actv_member(plat, k[1], k[2]) # None

Pardoned(k) ==
    /\ db.members[k].exists
    /\ db.members[k].status = 0
    /\ db.members[k].status_till = None

EventualExpiry ==
    \A k \in Users \X Guilds : ExpiryPassed(k) ~> (Pardoned(k) \/ ~ExpiryPassed(k))

(***************************************************************************)
(* C24. Stale helping-block role: in a ticket creation that runs, when the *)
(* tenant's helping_block is set and resolves, one deny overwrite is       *)
(* applied to that role on the channel and the setting is as before; when  *)
(* it is set and no longer resolves, no deny overwrite is applied, the     *)
(* setting is persisted as null by the commit of the handler, and the rest *)
(* of the workflow (topic edit, ticket row) is carried out.                *)
(***************************************************************************)
DenyCalls(fx, c) ==
    {i \in 1..Len(fx) : /\ fx[i].k = "set_permissions"
                        /\ fx[i].ch = c
                        /\ fx[i].txt = DenyOverwrite}

ReachesEnd(r) ==
    /\ r.op \in CreationOps
    /\ r.ran
    /\ ~r.ticket_type.ignore
    /\ ~r.exc

StaleHelpingBlock ==
    [][ReachesEnd(last') =>
         LET block == db.guilds[last'.g].helping_block
             denied == DenyCalls(last'.fx, last'.ch)
         IN /\ (block # None /\ block \notin last'.gone) =>
                  /\ Cardinality(denied) = 1
                  /\ \A i \in denied : last'.fx[i].arg = block
                  /\ db'.guilds[last'.g].helping_block = block
            /\ (block # None /\ block \in last'.gone) =>
                  /\ denied = {}
                  /\ db'.guilds[last'.g].helping_block = None
                  /\ last'.committed
                  /\ last'.sess = <<"commit", "close">>
                  /\ db'.tickets[last'.ch].exists
                  /\ \E i \in 1..Len(last'.fx) : last'.fx[i].k = "edit_topic"
                  /\ plat'.topic[last'.ch].text = "ticket"
            /\ block = None =>
                  /\ denied = {}
                  /\ db'.guilds[last'.g].helping_block = None]_vars

\* A ticket was created while the configured helping-block role was deleted.
StaleHelpingBlockWitness ==
    /\ ReachesEnd(last)
    /\ 12 \in last.gone
    /\ DenyCalls(last.fx, last.ch) = {}
    /\ db.guilds[last.g].helping_block = None
    /\ Called("edit_topic")
    /\ Called("commit")
    /\ db.tickets[last.ch].exists

(***************************************************************************)
(* C25. Ticket-type gating: in every ticket creation that runs, community  *)
(* allow overwrites are applied iff the tenant has community roles and the *)
(* selected type grants community access; the community ping is sent (and  *)
(* deleted) iff the tenant has community-ping roles and the type allows    *)
(* pinging; the button stripping runs iff strip_buttons is on and the type *)
(* allows stripping; a channel whose name starts with no stored prefix     *)
(* gets the default type (ping, access and strip on, ignore off).          *)
(***************************************************************************)
AllowedRoles(fx, c) ==
    {fx[i].arg : i \in {j \in 1..Len(fx) : /\ fx[j].k = "set_permissions"
                                            /\ fx[j].ch = c
                                            /\ fx[j].txt = AllowOverwrite}}

AllowedOnce(fx, c) ==
    \A i, j \in 1..Len(fx) :
        (/\ fx[i].k = "set_permissions" /\ fx[j].k = "set_permissions"
         /\ fx[i].ch = c /\ fx[j].ch = c
         /\ fx[i].txt = AllowOverwrite /\ fx[j].txt = AllowOverwrite
         /\ fx[i].arg = fx[j].arg) => i = j

Pinged(fx, c, roles) ==
    \E i \in 1..(Len(fx) - 1) :
        /\ fx[i].k = "send" /\ fx[i].ch = c /\ fx[i].arg = None
        /\ fx[i].txt = JoinMentions(Ascending(roles))
        /\ fx[i + 1].k = "delete_message" /\ fx[i + 1].ch = c
        /\ fx[i + 1].txt = fx[i].txt

AnyPing(fx, c) ==
    \E i \in 1..Len(fx) : fx[i].k = "send" /\ fx[i].ch = c /\ fx[i].arg = None

Stripped(fx, c) == \E i \in 1..Len(fx) : fx[i].k = "history" /\ fx[i].ch = c

NoStoredPrefix(g, c) ==
    \A t \in db.ticket_types[g] : ~startswith(ChanName(c), t.prefix)

PingAndStripGating(r, pings, strip) ==
    /\ IF pings # {} /\ r.ticket_type.comping
       THEN Pinged(r.fx, r.ch, pings) ELSE ~AnyPing(r.fx, r.ch)
    /\ Stripped(r.fx, r.ch) <=> (strip /\ r.ticket_type.strpbuttns)
    /\ NoStoredPrefix(r.g, r.ch) =>
          r.ticket_type = [prefix |-> <<>>, comping |-> TRUE, comaccs |-> TRUE,
                           strpbuttns |-> TRUE, ignore |-> FALSE]

TypeGating ==
    [][ReachesEnd(last') =>
         LET access == RolesOf(db.community_roles, last'.g)
         IN /\ AllowedRoles(last'.fx, last'.ch) # {}
                 <=> (access # {} /\ last'.ticket_type.comaccs)
            /\ PingAndStripGating(last', RolesOf(db.community_pings, last'.g),
                                  db.guilds[last'.g].strip_buttons)]_vars

\* As C25, with the allow overwrites applied once to each community role
\* that still resolves on the platform, and to no other role.
TypeGatingOfResolved ==
    [][ReachesEnd(last') =>
         LET access == RolesOf(db.community_roles, last'.g)
         IN /\ AllowedRoles(last'.fx, last'.ch)
                 = IF access # {} /\ last'.ticket_type.comaccs
                   THEN access \ last'.gone ELSE {}
            /\ AllowedOnce(last'.fx, last'.ch)
            /\ PingAndStripGating(last', RolesOf(db.community_pings, last'.g),
                                  db.guilds[last'.g].strip_buttons)]_vars

\* A ticket of type 'bug', which allows pings and stripping but grants no
\* community access, in a guild with all three settings on.
TypeGatingWitness ==
    /\ ReachesEnd(last)
    /\ last.ticket_type.prefix = PrefixBug
    /\ ~last.ticket_type.comaccs
    /\ RolesOf(db.community_roles, last.g) = {11, 12}
    /\ AllowedRoles(last.fx, last.ch) = {}
    /\ Pinged(last.fx, last.ch, {11})
    /\ Stripped(last.fx, last.ch)

(***************************************************************************)
(* C26. Settings validation: an open message of more than 200 characters   *)
(* or a staff-team name of more than 40 characters is rejected before any  *)
(* session is opened and the stored values are as before; a text within   *)
(* the limit is stored and committed, and no other field changes.          *)
(***************************************************************************)
TextCommands == {"change_openmsg", "change_staffteamname"}

RowOf(d, g) == IF d.guilds[g].exists THEN d.guilds[g]
               ELSE [d.guilds[g] EXCEPT !.exists = TRUE]

AnonymizeInvolution ==
    [][last'.op = "anonymize" =>
         LET c == last'.ch
         IN /\ db.tickets[c].exists =>
                  /\ db' = [db EXCEPT !.tickets[c].anonymous = ~db.tickets[c].anonymous]
                  /\ last'.committed
                  /\ last'.sess = <<"commit", "close">>
                  /\ (last.op = "anonymize" /\ last.ch = c /\ last.committed) =>
                         db'.tickets[c] = last.pre
            /\ ~db.tickets[c].exists =>
                  /\ db' = db
                  /\ ~last'.committed
                  /\ last'.reply = "This channel is not a ticket."
                  /\ last'.sess = <<"rollback", "close">>]_vars

\* The second of two invocations: the ticket is not anonymous again.
AnonymizeInvolutionWitness ==
    /\ last.op = "anonymize"
    /\ last.committed
    /\ last.pre.exists
    /\ last.pre.anonymous
    /\ ~db.tickets[last.ch].anonymous

(***************************************************************************)
(* C28. Duplicate channel-created event: when the creation workflow runs   *)
(* again for a channel that already has a committed Ticket row, the store  *)
(* still holds the one row of that channel, with the staff_note_thread,    *)
(* user, anonymous, notified and creation time the first run wrote (and    *)
(* what staff set since); the get-or-create answers wasCreated = false.    *)
(***************************************************************************)
DuplicateCreation ==
    [][(ReachesEnd(last') /\ db.tickets[last'.ch].exists) =>
         /\ ~last'.new
         /\ db'.tickets = db.tickets
         /\ db'.tickets[last'.ch].staff_note_thread = calls[last'.ch].staff_note
         /\ db'.tickets[last'.ch].user_id = calls[last'.ch].user_id
         /\ last'.got = db.tickets[last'.ch]]_vars

\* The event of channel 101 was delivered again at a later time, after the
\* ticket was made anonymous: a second notes thread was created, the row is
\* that of the first run.
DuplicateCreationWitness ==
    /\ last.op = "on_channel_create"
    /\ ReachesEnd(last)
    /\ ~last.new
    /\ calls[last.ch].n = 2
    /\ plat.threads = 2
    /\ db.tickets[last.ch].staff_note_thread = ThreadId(1)
    /\ db.tickets[last.ch].anonymous
    /\ db.tickets[last.ch].date_created < now

(***************************************************************************)
(* C29. Penalty sweep with a vanished penalty role: when a configured      *)
(* support-block or helping-block role of the tenant no longer resolves,   *)
(* the tick skips only the removal of that role: every expired member that *)
(* resolves, of that tenant and of the others, is reset to status none and *)
(* expiry null, and the tick commits.                                      *)
(***************************************************************************)
VanishedRoleSkipped ==
    [][last'.op = "clean_status" =>
          LET swept == {k \in DOMAIN db.members :
                           /\ db.members[k].exists
                           /\ db.members[k].status_till # None
                           /\ db.members[k].status_till <= now
                           /\ Resolves(k)}
          IN (\E k \in swept : VanishedPenaltyRole(k[2])) =>
                /\ last'.committed
                /\ \A k \in swept :
                      /\ db'.members[k].status = 0
                      /\ db'.members[k].status_till = None]_vars

(***************************************************************************)
(* C30. usrstatus with a missing role: invoked with status support-blocked *)
(* or helping-blocked while the tenant has no such penalty role            *)
(* configured, the command is rejected, no role is added to the target,    *)
(* and the persisted Member status and expiry (and every other row) are as *)
(* before the command.                                                     *)
(***************************************************************************)
MissingRoleRejected ==
    [][(/\ last'.op = "usrstatus"
        /\ last'.arg \in {1, 2}
        /\ None = IF last'.arg = 1 THEN RowOf(db, last'.g).support_block
                  ELSE RowOf(db, last'.g).helping_block) =>
          /\ last'.reply = "InvalidParameters"
          /\ ~last'.committed
          /\ last'.sess = <<"rollback", "close">>
          /\ \A i \in 1..Len(last'.fx) : last'.fx[i].k # "add_roles"
          /\ plat'.held = plat.held
          /\ db' = db]_vars

\* User 1 is support-blocked; helping-blocking them in a guild without a
\* helping-block role was rejected and the row still says support-blocked.
MissingRoleRejectedWitness ==
    /\ last.op = "usrstatus"
    /\ last.arg = 2
    /\ last.reply = "InvalidParameters"
    /\ db.guilds[last.g].helping_block = None
    /\ db.members[<<last.key, last.g>>].status = 1
    /\ <<last.key, 11>> \in plat.held

(***************************************************************************)
(* C31. Edit ticket type: the command is rejected with 'You must specify   *)
(* at least one value to edit' only when none of comping, comaccs,         *)
(* strpbuttns and ignore is given; when at least one is given (true or     *)
(* false) for an existing type, exactly the given flags take the given     *)
(* values, the others are unchanged, and the change is committed.          *)
(***************************************************************************)
EditsGivenFlags ==
    [][last'.op = "edit_ticket_type" =>
         LET o == last'.arg
             g == last'.g
             given == {f \in {"comping", "comaccs", "strpbuttns", "ignore"} :
                          o[f] # "None"}
             rows == {t \in db.ticket_types[g] : <<t.prefix>> = last'.ttypes}
         IN /\ last'.reply = "You must specify at least one value to edit."
                 => given = {}
            /\ (given # {} /\ rows # {}) =>
                  /\ last'.committed
                  /\ \A t \in rows :
                        \E n \in db'.ticket_types[g] :
                            /\ n.prefix = t.prefix
                            /\ \A f \in given : n[f] = (o[f] = "True")
                            /\ \A f \in {"comping", "comaccs", "strpbuttns",
                                          "ignore"} \ given : n[f] = t[f]
                            /\ db'.ticket_types[g] = (db.ticket_types[g] \ {t}) \cup {n}]_vars

(***************************************************************************)
(* C32. Register stores the staff thread: after register succeeded on an   *)
(* untracked channel, the committed Ticket row has staff_note_thread equal *)
(* to the id of the supplied (or newly created) staff-notes thread, and    *)
(* its user_id is not a thread id.                                         *)
(***************************************************************************)
RegisteredThread ==
    LET i == CHOOSE j \in 1..Len(last.fx) : last.fx[j].k = "get_ticket"
    IN last.fx[i].arg

RegisterStoresThread ==
    (last.op = "staff_register" /\ last.committed /\ last.new) =>
        /\ db.tickets[last.ch].exists
        /\ db.tickets[last.ch].staff_note_thread = RegisteredThread
        /\ db.tickets[last.ch].user_id # RegisteredThread

(***************************************************************************)
(* C33. No orphan ticket after deletion: however a channel-created handler *)
(* and the channel-deleted handler of the same channel interleave, each in *)
(* its own session, once the deletion was handled and the creation handler *)
(* has finished, the store holds no Ticket row for the channel.            *)
(***************************************************************************)
CreationFinished(c) ==
    /\ \E u \in Units : /\ units[u].key = c
                        /\ units[u].op = "on_channel_create"
                        /\ units[u].pc = "done"
    /\ \A u \in Units : units[u].key = c =>
                            /\ units[u].op = "on_channel_create"
                            /\ units[u].pc = "done"

NoOrphanTicket ==
    \A c \in plat.gone : CreationFinished(c) => ~db.tickets[c].exists

(***************************************************************************)
(* C34.  At most one stale warning per ticket: over any sequence of        *)
(* notify_users ticks, including ticks in which a send raises, the user of *)
(* a ticket is sent the stale-ticket warning at most once.                 *)
(***************************************************************************)
WarnedAtMostOnce == \A c \in Channels : plat.dms[c] <= 1

(***************************************************************************)
(* C35.  Exclusive creation paths: the channel-created event runs the      *)
(* ticket workflow only when the stored integrated flag of the tenant is   *)
(* false, the HTTP handler runs it only when the flag is true, and for a   *)
(* tenant whose flag is false the handler answers 409, calls nothing and   *)
(* leaves the store and the platform as they were.                         *)
(***************************************************************************)
StoredFlag(g) == db.guilds[g].exists /\ db.guilds[g].integrated

ExclusivePaths ==
    [][/\ last'.op = "on_channel_create" /\ last'.ran => ~StoredFlag(last'.g)
       /\ last'.op = "TicketHandler.post" /\ last'.ran => StoredFlag(last'.g)
       /\ last'.op = "TicketHandler.post" /\ ~StoredFlag(last'.g) =>
             /\ last'.reply = "409"
             /\ last'.fx = <<>>
             /\ ~last'.committed
             /\ db' = db
             /\ plat' = plat]_vars

\* The handler refused a request for a live channel of a tenant that is not
\* integrated, while the row of a ticket the event path created is stored.
ExclusivePathsWitness ==
    /\ last.op = "TicketHandler.post"
    /\ last.reply = "409"
    /\ last.ch \in plat.live
    /\ ~StoredFlag(last.g)
    /\ \E c \in Channels : db.tickets[c].exists /\ ChanGuild(c) = last.g

(***************************************************************************)
(* C36.  Tenant isolation of toggles: a toggle invoked for one tenant with *)
(* some ID leaves the entries of every other tenant, in every table, as    *)
(* they were, whatever entries the other tenant has for that ID.           *)
(***************************************************************************)
ToggleKinds == {"staff", "observers", "communitysupport", "communityping", "ticketbot"}

Permanent(k) ==
    /\ db.members[k].exists
    /\ db.members[k].status # 0
    /\ db.members[k].status_till = None

SweptFor(k) ==
    \E i \in 1..Len(last'.fx) :
        /\ last'.fx[i].k = "remove_roles"
        /\ last'.fx[i].ch = k[2]
        /\ last'.fx[i].arg = k[1]

PermanentPersists ==
    [][\A k \in Users \X Guilds :
          Permanent(k) =>
             /\ last'.op = "clean_status" =>
                    db'.members[k] = db.members[k] /\ ~SweptFor(k)
             /\ db'.members[k] # db.members[k] =>
                    \/ last'.op = "usrstatus" /\ k = <<last'.key, last'.g>>
                    \/ /\ last'.op = "on_member_join"
                       /\ k = <<last'.key, last'.g>>
                       /\ BlockOf(k) = None]_vars

\* A tick of the sweep reset user 1, whose penalty had run out, while the
\* permanent penalty of user 2 is still stored.
PermanentPersistsWitness ==
    /\ last.op = "clean_status"
    /\ last.committed
    /\ \E i \in 1..Len(last.fx) : last.fx[i].k = "remove_roles" /\ last.fx[i].arg = 1
    /\ Permanent(<<2, 1>>)
    /\ <<2, 1>> \in plat.members

(***************************************************************************)
(* C38.  Relay never loses content: of every message the anonymous relay   *)
(* set out to relay, whether its send or its delete raised or not, the     *)
(* original or its relayed copy exists in the channel.                     *)
(***************************************************************************)
RelayKeepsContent ==
    \A id \in plat.relayed :
        \E m \in plat.posts : m.ch = 102 /\ (m.id = id \/ m.of = id)

\* A relay that went through: the copy is there and the original is gone.
RelayKeepsContentWitness ==
    \E id \in plat.relayed :
        /\ \E m \in plat.posts : m.of = id /\ m.bot
        /\ ~\E m \in plat.posts : m.id = id

(***************************************************************************)
(* C39.  No relay loop: the event of a message written by a bot, the bot's *)
(* own copies included, or outside a guild is dropped before the store is  *)
(* read and causes no call; the handling of one message adds at most one   *)
(* message to the channel; and no message is a copy of a copy, so the      *)
(* chain of events one user message causes ends with its copy.             *)
(***************************************************************************)
NoRelayLoop ==
    [][last'.op = "on_message" =>
          /\ last'.msg.bot \/ last'.ch = DMChannel =>
                /\ ~last'.ran
                /\ last'.fx = <<>>
                /\ last'.sess = <<"close">>
                /\ db' = db
                /\ plat'.posts = plat.posts
                /\ plat'.events \subseteq plat.events
          /\ Cardinality(plat'.posts \ plat.posts) <= 1
          /\ Cardinality(plat'.events \ plat.events) <= 1
          /\ \A m \in plat'.posts : m.gen <= 1]_vars

\* The event of the bot's own copy was handled, the bot holding a staff role
\* in an anonymous ticket, and nothing came of it.
NoRelayLoopWitness ==
    /\ last.op = "on_message"
    /\ last.msg.bot
    /\ last.msg.author = BotUser
    /\ 11 \in last.msg.roles
    /\ db.tickets[102].anonymous
    /\ \E m \in plat.posts : m.id = last.key /\ m.gen = 1 /\ m \notin plat.events

====
